---- MODULE Spec2Model ----
(***************************************************************************)
(* Gasless transfer relay pipeline of slipstream-relayer.                  *)
(*                                                                         *)
(* Two relayers live in the repository: the Express one (RelayerService    *)
(* singleton behind RelayerController) and the Nest one (RelayerService    *)
(* over ContractManagerService).  Each inbound request is one task; the    *)
(* code between two awaits is one atomic step.  The chain (contract nonce, *)
(* mempool, blocks) and the wall clock are the environment.                *)
(***************************************************************************)
EXTENDS Integers, Sequences, FiniteSets, TLC

(***************************************************************************)
(* Bounds of the model.                                                    *)
(***************************************************************************)
MaxTime == 3
MaxNonce == 1

\* two tasks run concurrently
RIDs == {1, 2}

Min(a, b) == IF a < b THEN a ELSE b
Max(a, b) == IF a > b THEN a ELSE b

\* a value that is absent (undefined, null, not yet known)
Unset == -1

(***************************************************************************)
(* Addresses.  An address string names an account (who) in some letter     *)
(* case; toLowerCase folds the case.                                       *)
(***************************************************************************)
Accounts == {"alice", "mallory", "bob", "carol"}
Addr(w, c) == [who |-> w, cs |-> c]
toLowerCase(a) == [a EXCEPT !.cs = "lower"]
\* the address ethers returns from a recovery: checksum case
getAddress(w) == Addr(w, "checksum")
\* what a recovery yields when the signature was not made over the digest
JunkAddress == Addr("nobody", "checksum")

(***************************************************************************)
(* Express chain configuration (config/chainConfig.ts, config/index.ts).   *)
(***************************************************************************)
KADENA == 5920
BASE == 84532
ARBITRUM == 421614

CHAIN_CONFIGS ==
  [c \in {KADENA, BASE, ARBITRUM} |->
     [id |-> c,
      gaslessContract |-> CASE c = KADENA -> ""
                            [] c = BASE -> "proxyBase"
                            [] c = ARBITRUM -> "proxyArbitrum",
      tokens |-> CASE c = KADENA -> {"TUSDC"}
                   [] c = BASE -> {"USDC"}
                   [] c = ARBITRUM -> {"PYUSD", "USDC"}]]

\* getChainConfig(chainId) is undefined for an id CHAIN_CONFIGS does not hold
HasChainConfig(chainId) == chainId \in DOMAIN CHAIN_CONFIGS
getChainConfig(chainId) == CHAIN_CONFIGS[chainId]

\* RelayerService.contracts after initializeProvidersAndContracts: only the
\* chains whose gaslessContract is set
InitializedChains ==
  {c \in {KADENA, BASE, ARBITRUM} : CHAIN_CONFIGS[c].gaslessContract # ""}

\* validateRelayRequest: Joi.number().valid(5920, 84532, 421614)
JoiValidChain(chainId) == chainId \in {KADENA, BASE, ARBITRUM}

(***************************************************************************)
(* Signatures.  A signature is what a key holder produced over a digest;   *)
(* recovery returns the holder when the digest is the signed one and an    *)
(* unrelated address otherwise.  scheme "typed" is EIP-712 (domain bound   *)
(* to chainId and verifyingContract), "packed" the keccak of the packed    *)
(* fields led by the contract address.                                     *)
(***************************************************************************)
TransferData(from, to, token, amount, fee, nonce, deadline) ==
  [from |-> from, to |-> to, token |-> token, amount |-> amount,
   relayerFee |-> fee, nonce |-> nonce, deadline |-> deadline]

Digest(scheme, chainId, contract, data) ==
  [scheme |-> scheme, chainId |-> chainId, contract |-> contract, data |-> data]

Sign(w, digest) == [wellFormed |-> TRUE, signer |-> w, digest |-> digest]

NoDigest == Digest("none", 0, "", TransferData("", "", "", 0, 0, 0, 0))
MalformedSignature == [wellFormed |-> FALSE, signer |-> "nobody", digest |-> NoDigest]

Recover(digest, sig) ==
  IF sig.digest = digest THEN getAddress(sig.signer) ELSE JunkAddress

(***************************************************************************)
(* Fee calculation.  Token amounts are integers (BigInt in the code).  USD *)
(* amounts are floats in the code; here minFeeUsd is counted in cents and  *)
(* a price is mantissa * 10^expo (expo <= 0) as the oracle reports it.     *)
(* The float conversion floor(usd / price * 10^decimals) is computed as    *)
(* the exact quotient; the input grids below hold only points where the    *)
(* IEEE-754 double result is that quotient.                                *)
(***************************************************************************)
BPS_DENOMINATOR == 10000
DEFAULT_FEE_BPS == 25
MAXIMUM_FEE_BPS == 500
MINIMUM_FEE_USD_CENTS == 10
TOKEN_DECIMALS == 6
\* Number.prototype.toString switches to exponent notation at 10^21
EXPONENT_NOTATION_DIGITS == 21

RECURSIVE Pow10(_)
Pow10(n) == IF n <= 0 THEN 1 ELSE 10 * Pow10(n - 1)

Abs(n) == IF n < 0 THEN 0 - n ELSE n

\* Math.floor(n / d) for d > 0
Floor(n, d) == n \div d

NullPrice == [avail |-> FALSE, mant |-> 0, expo |-> 0]
Price(m, e) == [avail |-> TRUE, mant |-> m, expo |-> e]

\* the string a Number prints as: a decimal numeral, or exponent notation
DecimalString(n) == [form |-> "decimal", value |-> n]
ExponentString == [form |-> "exponent", value |-> 0]

\* usdCents / 100 / (mant * 10^expo) * 10^decimals, floored
UsdToTokenUnits(usdCents, tokenDecimals, price) ==
  LET k == IF usdCents = 0 THEN 0 ELSE tokenDecimals - price.expo - 2
      m == Abs(price.mant)
      q == IF k >= 0 THEN [n |-> usdCents * Pow10(k), d |-> m]
           ELSE [n |-> usdCents, d |-> m * Pow10(0 - k)]
  IN IF usdCents = 0 THEN 0
     ELSE IF price.mant > 0 THEN Floor(q.n, q.d) ELSE Floor(0 - q.n, q.d)

\* whether that quotient has 22 digits or more
PrintsAsExponent(usdCents, tokenDecimals, price) ==
  LET k == tokenDecimals - price.expo - 2
      m == Abs(price.mant)
      e == EXPONENT_NOTATION_DIGITS
  IN IF k >= e THEN usdCents * Pow10(k - e) >= m
     ELSE IF e - k <= 6 THEN usdCents >= m * Pow10(e - k)
     ELSE FALSE

\* a conversion without the guard for a missing price: the division yields
\* no numeral
UnguardedConvertFromUsd(usdCents, tokenDecimals, price) ==
  IF ~price.avail \/ price.mant = 0 THEN ExponentString
  ELSE IF PrintsAsExponent(usdCents, tokenDecimals, price) THEN ExponentString
  ELSE DecimalString(UsdToTokenUnits(usdCents, tokenDecimals, price))

\* PythPriceService.convertFromUsd, given what getPrice returned
convertFromUsd(usdCents, tokenDecimals, price) ==
  IF ~price.avail \/ price.mant = 0 THEN DecimalString(0)
  ELSE IF PrintsAsExponent(usdCents, tokenDecimals, price) THEN ExponentString
  ELSE DecimalString(UsdToTokenUnits(usdCents, tokenDecimals, price))

\* a percentage taken per mille
PerMilleFeeOf(amount, feeSettings) == (amount * feeSettings.baseFeeBps) \div 1000

percentageFeeOf(amount, feeSettings) ==
  (amount * feeSettings.baseFeeBps) \div BPS_DENOMINATOR

maxFeeAllowedOf(amount, feeSettings) ==
  (amount * feeSettings.maxFeeBps) \div BPS_DENOMINATOR

FeeFailure == [success |-> FALSE, fee |-> 0, percentageFee |-> 0, minFeeTokens |-> 0]

\* a selection that forgets the minimum fee, a cap that does not cap
OnlyPercentage(percentageFee, minFeeTokens) == percentageFee
Uncapped(calculatedFee, maxFeeAllowed) == calculatedFee

\* the two selections of calculateFee (lines 241 and 245)
HigherOf(percentageFee, minFeeTokens) ==
  IF percentageFee > minFeeTokens THEN percentageFee ELSE minFeeTokens

CappedAt(calculatedFee, maxFeeAllowed) ==
  IF calculatedFee > maxFeeAllowed THEN maxFeeAllowed ELSE calculatedFee

\* Express RelayerService.calculateFee for a supported chain and token with
\* a priceId; BigInt(minFeeTokens) throws on a string that is no numeral and
\* the outer catch answers success = false, fee = '0'
calculateFee(amount, feeSettings, tokenDecimals, price) ==
  LET percentageFee == percentageFeeOf(amount, feeSettings)
      minFeeTokens == convertFromUsd(feeSettings.minFeeUsdCents, tokenDecimals, price)
  IN IF minFeeTokens.form # "decimal" THEN FeeFailure
     ELSE LET calculatedFee == HigherOf(percentageFee, minFeeTokens.value)
              maxFeeAllowed == maxFeeAllowedOf(amount, feeSettings)
          IN [success |-> TRUE,
              fee |-> CappedAt(calculatedFee, maxFeeAllowed),
              percentageFee |-> percentageFee,
              minFeeTokens |-> minFeeTokens.value]

\* ethers.parseUnits(minFeeUsd.toString(), decimals): the USD figure read as
\* a token amount; it throws when the figure has more fraction digits than
\* the token has decimals
FractionDigits(usdCents) ==
  IF usdCents % 100 = 0 THEN 0 ELSE IF usdCents % 10 = 0 THEN 1 ELSE 2

parseUnitsThrows(usdCents, tokenDecimals) == FractionDigits(usdCents) > tokenDecimals

parseUnits(usdCents, tokenDecimals) ==
  IF tokenDecimals >= 2 THEN usdCents * Pow10(tokenDecimals - 2)
  ELSE usdCents \div Pow10(2 - tokenDecimals)

\* Nest RelayerService.calculateFee; a throw becomes 'Failed to calculate fee'
NestCalculateFee(amount, feeSettings, tokenDecimals) ==
  IF parseUnitsThrows(feeSettings.minFeeUsdCents, tokenDecimals) THEN FeeFailure
  ELSE LET percentageFee == percentageFeeOf(amount, feeSettings)
           minFeeTokens == parseUnits(feeSettings.minFeeUsdCents, tokenDecimals)
           calculatedFee == HigherOf(percentageFee, minFeeTokens)
           maxFeeAllowed == maxFeeAllowedOf(amount, feeSettings)
       IN [success |-> TRUE,
           fee |-> CappedAt(calculatedFee, maxFeeAllowed),
           percentageFee |-> percentageFee,
           minFeeTokens |-> minFeeTokens]

\* the fee policy every chain gets from config/index.ts defaults
DefaultFeeSettings ==
  [baseFeeBps |-> DEFAULT_FEE_BPS, maxFeeBps |-> MAXIMUM_FEE_BPS,
   minFeeUsdCents |-> MINIMUM_FEE_USD_CENTS]

(***************************************************************************)
(* State.                                                                  *)
(***************************************************************************)
VARIABLES
  reqs,                   \* the inbound request each task serves
  pc,                     \* where each task stands
  startedAt,              \* per task: clock value when the request arrived
  log,                    \* per task: stages reached and network calls issued
  sent,                   \* per task: the on-chain writes it issued
  resp,                   \* per task: the response returned to the caller
  prep,                   \* per task: the nonce read on chain, the fee used
  gasRes,                 \* per task: answer of the node to estimateGas
  now,                    \* wall clock, seconds
  chainNonce,             \* contract state: getCurrentUserNonce per chain, user
  mempool,                \* tasks whose transaction the node accepted
  receipt,                \* per task: how its transaction was mined
  processedTransactions,  \* Express RelayerService.processedTransactions
  nestProcessed,          \* Nest RelayerService.processedTransactions
  feeIn,                  \* the fee estimate asked for
  feeOut,                 \* what calculateFee answered
  clock,                  \* Date.now() of the price and gas services, ms
  priceCache,             \* PythPriceService.priceCache entry of the feed
  priceCall,              \* per caller: its getPrice call, running or last
  priceIssued,            \* getPrice calls started so far
  cacheWrites,            \* the priceCache.set calls made so far
  gasPriceCache,          \* GasEstimationService.gasPriceCache entry of the chain
  gasCall,                \* per caller: its gas call, running or last
  gasIssued,              \* gas calls started so far
  batchIn,                \* the batch request handed to a batch method
  batchRun,               \* that call: position, on-chain calls, response
  chains,                 \* ChainConfigService.chains
  lookupIn,               \* the configuration lookup asked for
  lookupOut,              \* what the lookup returned or threw
  nonceCall,              \* per caller: its getUserNonce call
  dailyVolumes,           \* table daily_volumes: volume_usd per chain, today
  userVolumes,            \* redis user_daily_volume:<chain>:<user>:<today>
  safetyCall              \* per caller: its check and record of one transfer

feeVars == <<feeIn, feeOut>>
priceVars == <<priceCache, priceCall, priceIssued, cacheWrites>>
gasVars == <<gasPriceCache, gasCall, gasIssued>>
svcVars == <<clock, priceVars, gasVars>>
batchVars == <<batchIn, batchRun>>
lookupVars == <<chains, lookupIn, lookupOut>>
nonceVars == <<nonceCall>>
safetyVars == <<dailyVolumes, userVolumes, safetyCall>>
auxVars == <<batchVars, lookupVars, nonceVars, safetyVars>>
sideVars == <<feeVars, svcVars, auxVars>>
taskVars == <<pc, startedAt, log, sent, resp, prep, gasRes>>
chainVars == <<chainNonce, mempool, receipt>>
relayVars == <<reqs, pc, startedAt, log, sent, resp, prep, gasRes, now, chainNonce,
               mempool, receipt, processedTransactions, nestProcessed>>

\* no fee estimate asked for, none answered
NoFeeInput ==
  [amount |-> 0, feeSettings |-> DefaultFeeSettings, tokenDecimals |-> 0,
   price |-> NullPrice]
NoFeeOutput == [svc |-> "none", result |-> FeeFailure]

NoResp == [success |-> FALSE, message |-> "pending"]
NoPrep == [nonce |-> -1, fee |-> -1]
\* the nonce read threw
ReadFailed == [nonce |-> -2, fee |-> -1]

\* a response with success = false
Failure(msg) == [success |-> FALSE, message |-> msg]
Success(msg) == [success |-> TRUE, message |-> msg]

IsRpc(e) == e \in {"rpc:getCurrentUserNonce", "rpc:estimateGas", "rpc:send",
                   "rpc:balanceOf", "rpc:allowance",
                   "rpc:checkERC2612PermitSupport", "rpc:wait"}

Has(seq, e) == \E i \in 1..Len(seq) : seq[i] = e
IndexOf(seq, e) == CHOOSE i \in 1..Len(seq) : seq[i] = e

\* a failed check that answers the failure and lets the task go on to the
\* gas estimate
RejectAndGoOn(r, events, msg) ==
  /\ pc' = [pc EXCEPT ![r] = "awaitGas"]
  /\ log' = [log EXCEPT ![r] = log[r] \o events]
  /\ resp' = [resp EXCEPT ![r] = Failure(msg)]

\* a failure handler that sends the transaction of the request once more
\* after the node refused it or it reverted
RetryAfterFailure(r, events, msg) ==
  /\ pc' = [pc EXCEPT ![r] = IF pc[r] \in {"awaitSend", "awaitReceipt"} /\ Len(sent[r]) < 2
                             THEN "gasReady" ELSE "rejected"]
  /\ log' = [log EXCEPT ![r] = log[r] \o events]
  /\ resp' = [resp EXCEPT ![r] = Failure(msg)]

\* the task ends with a failure response; nothing else of it changes
Reject(r, events, msg) ==
  /\ pc' = [pc EXCEPT ![r] = "rejected"]
  /\ log' = [log EXCEPT ![r] = log[r] \o events]
  /\ resp' = [resp EXCEPT ![r] = Failure(msg)]

(***************************************************************************)
(* Express RelayerService: signature and replay checks.                    *)
(***************************************************************************)
\* a digest that leaves the nonce out of the signed data
DigestWithoutNonce(q, cfg) ==
  Digest("typed", q.chainId, cfg.gaslessContract,
         TransferData(q.from.who, q.to.who, q.token, q.amount, q.fee,
                      0, q.deadline))

\* the typed-data digest verifySignature rebuilds from the request
ExpressDigest(q, cfg) ==
  Digest("typed", q.chainId, cfg.gaslessContract,
         TransferData(q.from.who, q.to.who, q.token, q.amount, q.fee,
                      q.nonce, q.deadline))

\* ethers.verifyTypedData throws on a malformed signature or an empty
\* verifyingContract; the catch answers false
verifySignature(q) ==
  IF ~HasChainConfig(q.chainId) THEN FALSE
  ELSE LET cfg == getChainConfig(q.chainId) IN
       IF ~q.signature.wellFormed \/ cfg.gaslessContract = "" THEN FALSE
       ELSE toLowerCase(Recover(ExpressDigest(q, cfg), q.signature))
              = toLowerCase(q.from)

txKey(q) == <<q.chainId, q.from, q.nonce>>

\* a replay check that lets any nonce at or above the on-chain one through
NonceNotBelow(currentNonce, expectedNonce) == expectedNonce >= currentNonce

\* checkReplayProtection line 356
NonceMatches(currentNonce, expectedNonce) == currentNonce = expectedNonce

\* relayStandardTransfer line 412, relayPermitTransfer line 542
DeadlineExpired(deadline, t) == deadline <= t

\* the contract entry point each service method calls (lines 437, 577)
ExpressEntry(route) ==
  IF route = "relayPermitTransfer" THEN "processPermitBasedGaslessTransfer"
  ELSE "processStandardGaslessTransfer"

\* a controller that takes the standard path whatever the request holds
AlwaysStandardRoute(q) == "relayStandardTransfer"

\* RelayerController.relayTransaction line 81
ControllerRoute(q) ==
  IF q.permit THEN "relayPermitTransfer" ELSE "relayStandardTransfer"

SendRecord(r, entry, nonce, gasLimit) ==
  [entry |-> entry, at |-> now, nonce |-> nonce, gasEstimate |-> gasRes[r].estimate,
   onChainNonce |-> chainNonce[reqs[r].chainId][reqs[r].from.who],
   deadline |-> reqs[r].deadline, gasLimit |-> gasLimit]

(***************************************************************************)
(* Express: controller, then relayStandardTransfer / relayPermitTransfer   *)
(* up to the await of verifySignature.                                     *)
(***************************************************************************)
ExpressStart(r) ==
  /\ pc[r] = "new"
  /\ reqs[r].api = "express"
  /\ LET q == reqs[r]
         route == ControllerRoute(q)
     IN IF ~JoiValidChain(q.chainId)
        THEN Reject(r, <<>>, "Invalid request parameters")
        ELSE IF route = "relayPermitTransfer" /\ ~q.permit
        THEN Reject(r, <<route>>, "Permit data required for permit-based transfer")
        ELSE IF ~HasChainConfig(q.chainId)
        THEN Reject(r, <<route>>, "Unsupported chain")
        ELSE IF ~verifySignature(q)
        THEN Reject(r, <<route, "VALIDATED">>, "Invalid signature")
        ELSE /\ pc' = [pc EXCEPT ![r] = "sigChecked"]
             /\ log' = [log EXCEPT ![r] = <<route, "VALIDATED", "SIGNATURE_OK">>]
             /\ resp' = resp
  /\ startedAt' = [startedAt EXCEPT ![r] = now]
  /\ UNCHANGED <<sideVars, reqs, sent, prep, gasRes, now, chainVars,
                 processedTransactions, nestProcessed>>

\* checkReplayProtection up to the await of getCurrentUserNonce
ExpressReplayCheck(r) ==
  /\ pc[r] = "sigChecked"
  /\ LET q == reqs[r] IN
     IF txKey(q) \in processedTransactions \/ q.chainId \notin InitializedChains
     THEN Reject(r, <<>>, "Transaction already processed or invalid nonce")
     ELSE /\ pc' = [pc EXCEPT ![r] = "awaitNonce"]
          /\ log' = [log EXCEPT ![r] = log[r] \o <<"rpc:getCurrentUserNonce">>]
          /\ resp' = resp
  /\ UNCHANGED <<sideVars, reqs, startedAt, sent, prep, gasRes, now, chainVars,
                 processedTransactions, nestProcessed>>

\* the nonce read answers; checkReplayProtection returns; the caller checks
\* the deadline and starts the gas estimate
ExpressNonceResolved(r) ==
  /\ pc[r] = "awaitNonce"
  /\ LET q == reqs[r]
         currentNonce == chainNonce[q.chainId][q.from.who]
     IN \E readOk \in BOOLEAN :
        IF ~readOk
        THEN /\ Reject(r, <<>>, "Transaction already processed or invalid nonce")
             /\ prep' = [prep EXCEPT ![r] = ReadFailed]
        ELSE IF ~NonceMatches(currentNonce, q.nonce)
        THEN /\ Reject(r, <<>>, "Transaction already processed or invalid nonce")
             /\ prep' = [prep EXCEPT ![r] = [nonce |-> currentNonce, fee |-> q.fee]]
        ELSE /\ prep' = [prep EXCEPT ![r] = [nonce |-> currentNonce, fee |-> q.fee]]
             /\ IF DeadlineExpired(q.deadline, now)
                THEN Reject(r, <<"NONCE_OK">>, "Transaction deadline expired")
                ELSE /\ pc' = [pc EXCEPT ![r] = "awaitGas"]
                     /\ log' = [log EXCEPT ![r] =
                                  log[r] \o <<"NONCE_OK", "rpc:estimateGas">>]
                     /\ resp' = resp
  /\ UNCHANGED <<sideVars, reqs, startedAt, sent, gasRes, now, chainVars,
                 processedTransactions, nestProcessed>>

\* estimateGas answered: a revert throws into the catch, otherwise the
\* transaction is sent with gasLimit = gasEstimate
ExpressGasResolved(r) ==
  /\ pc[r] = "gasReady"
  /\ reqs[r].api = "express"
  /\ IF gasRes[r].status # "ok"
     THEN /\ Reject(r, <<>>, gasRes[r].status)
          /\ sent' = sent
     ELSE /\ pc' = [pc EXCEPT ![r] = "awaitSend"]
          /\ log' = [log EXCEPT ![r] = log[r] \o <<"GAS_ESTIMATED", "rpc:send">>]
          /\ sent' = [sent EXCEPT ![r] =
                        Append(sent[r], SendRecord(r, ExpressEntry(log[r][1]),
                                                   reqs[r].nonce, gasRes[r].estimate))]
          /\ resp' = resp
  /\ UNCHANGED <<sideVars, reqs, startedAt, prep, gasRes, now, chainVars,
                 processedTransactions, nestProcessed>>

\* a send handler that marks the request as processed whether the node
\* took the transaction or refused it
MarkBeforeSendSettles(r) ==
  /\ pc[r] = "awaitSend"
  /\ reqs[r].api = "express"
  /\ processedTransactions' = processedTransactions \cup {txKey(reqs[r])}
  /\ \E accepted \in BOOLEAN :
       IF accepted
       THEN /\ pc' = [pc EXCEPT ![r] = "submitted"]
            /\ log' = [log EXCEPT ![r] = log[r] \o <<"SUBMITTED">>]
            /\ resp' = [resp EXCEPT ![r] = Success("Transaction submitted successfully")]
            /\ mempool' = mempool \cup {r}
       ELSE /\ Reject(r, <<>>, "send failed")
            /\ mempool' = mempool
  /\ UNCHANGED <<sideVars, reqs, startedAt, sent, prep, gasRes, now, chainNonce, receipt, nestProcessed>>

\* the node took the transaction (tx.hash is known) or refused it
ExpressSendResolved(r) ==
  /\ pc[r] = "awaitSend"
  /\ reqs[r].api = "express"
  /\ \E accepted \in BOOLEAN :
       IF accepted
       THEN /\ pc' = [pc EXCEPT ![r] = "submitted"]
            /\ log' = [log EXCEPT ![r] = log[r] \o <<"SUBMITTED">>]
            /\ resp' = [resp EXCEPT ![r] = Success("Transaction submitted successfully")]
            /\ mempool' = mempool \cup {r}
            /\ processedTransactions' = processedTransactions \cup {txKey(reqs[r])}
       ELSE /\ Reject(r, <<>>, "send failed")
            /\ UNCHANGED <<sideVars, mempool, processedTransactions>>
  /\ UNCHANGED <<sideVars, reqs, startedAt, sent, prep, gasRes, now, chainNonce, receipt, nestProcessed>>

(***************************************************************************)
(* Nest relayer: ChainConfigService, RelayerService, ContractManagerService*)
(***************************************************************************)
\* ChainConfigService.getChainConfig throws for an unknown chain and for an
\* empty contractAddress; getTokenConfig throws for an unlisted symbol
\* the members every object parsed from JSON inherits from Object.prototype
ObjectPrototypeKeys == {"constructor", "toString", "__proto__"}

LookupResult(threw, kind, chain, token, message) ==
  [done |-> TRUE, threw |-> threw, kind |-> kind, chain |-> chain,
   token |-> token, message |-> message]

\* a token lookup that only finds the symbols the chain lists
OwnTokenLookup(tokens, tokenSymbol) == tokenSymbol \in tokens

\* chainConfig.tokens[tokenSymbol] is truthy: a listed symbol, or a name
\* found on the prototype of the tokens object
TokenLookup(tokens, tokenSymbol) ==
  tokenSymbol \in tokens \/ tokenSymbol \in ObjectPrototypeKeys

\* ChainConfigService.getChainConfig over the stored configuration
ChainConfigLookup(stored, chainName) ==
  IF chainName \notin DOMAIN stored
  THEN LookupResult(TRUE, "none", 0, "", "Chain configuration not found")
  ELSE IF stored[chainName].gaslessContract = ""
  THEN LookupResult(TRUE, "none", 0, "", "Contract address not configured for chain")
  ELSE LookupResult(FALSE, "chain", chainName, "", "")

\* ChainConfigService.getTokenConfig over the stored configuration
TokenConfigLookup(stored, chainName, tokenSymbol) ==
  LET chainConfig == ChainConfigLookup(stored, chainName) IN
    IF chainConfig.threw THEN chainConfig
    ELSE IF ~TokenLookup(stored[chainName].tokens, tokenSymbol)
    THEN LookupResult(TRUE, "none", 0, "", "Token not supported")
    ELSE LookupResult(FALSE,
                      IF tokenSymbol \in stored[chainName].tokens
                      THEN "token" ELSE "inherited",
                      chainName, tokenSymbol, "")

NestChainConfigThrows(chainId) == ChainConfigLookup(CHAIN_CONFIGS, chainId).threw

NestTokenConfigThrows(chainId, tokenSymbol) ==
  TokenConfigLookup(CHAIN_CONFIGS, chainId, tokenSymbol).threw

\* validateTransferParams up to the first await (lines 100-121)
NestBasicValidationError(q, t) ==
  IF toLowerCase(q.from) = toLowerCase(q.to) THEN "Cannot send to same address"
  ELSE IF q.amount <= 0 THEN "Invalid amount"
  ELSE IF q.deadline <= t THEN "Transaction deadline has passed"
  ELSE IF NestChainConfigThrows(q.chainId) THEN "Chain configuration not found"
  ELSE IF NestTokenConfigThrows(q.chainId, q.token) THEN "Token not supported"
  ELSE "ok"

NestFee(q) == NestCalculateFee(q.amount, DefaultFeeSettings, TOKEN_DECIMALS)

\* ContractManagerService.generateMessageHash over the resolved transfer
NestDigest(q, nonce, fee) ==
  Digest("packed", 0, CHAIN_CONFIGS[q.chainId].gaslessContract,
         TransferData(q.from.who, q.to.who, q.token, q.amount, fee, nonce,
                      q.deadline))

\* RelayerService.verifySignature over ContractManagerService.verifySignature
NestVerifySignature(q, nonce, fee) ==
  IF NestChainConfigThrows(q.chainId) \/ ~q.signature.wellFormed THEN FALSE
  ELSE toLowerCase(Recover(NestDigest(q, nonce, fee), q.signature))
         = toLowerCase(q.from)

nestTxKey(q, nonce) == <<q.from, q.to, q.amount, nonce>>

NestEntry(api) ==
  CASE api = "nestStandard" -> "processStandardGaslessTransfer"
    [] api = "nestPermit" -> "processPermitBasedGaslessTransfer"
    [] OTHER -> "executeTransfer"

NestApis == {"nestStandard", "nestPermit", "nestExecute"}

\* a funds check that leaves the relayer fee out of the sum required
IgnoresFee(available, transferAmount, fee) == available < transferAmount

\* balance < totalRequired, allowance < totalRequired (lines 136, 151)
Insufficient(available, transferAmount, fee) == available < transferAmount + fee

\* validateTransferParams starts: the synchronous checks, then balanceOf
NestStart(r) ==
  /\ pc[r] = "new"
  /\ reqs[r].api \in NestApis
  /\ LET err == NestBasicValidationError(reqs[r], now) IN
     IF err # "ok" THEN Reject(r, <<reqs[r].api>>, err)
     ELSE /\ pc' = [pc EXCEPT ![r] = "awaitBalance"]
          /\ log' = [log EXCEPT ![r] = <<reqs[r].api, "rpc:balanceOf">>]
          /\ resp' = resp
  /\ startedAt' = [startedAt EXCEPT ![r] = now]
  /\ UNCHANGED <<sideVars, reqs, sent, prep, gasRes, now, chainVars,
                 processedTransactions, nestProcessed>>

\* balanceOf answers; the fee is computed; then allowance is read
NestBalanceResolved(r) ==
  /\ pc[r] = "awaitBalance"
  /\ LET q == reqs[r]
         fee == NestFee(q)
     IN \E readOk \in BOOLEAN :
        IF ~readOk THEN Reject(r, <<>>, "balance read failed")
        ELSE IF ~fee.success THEN Reject(r, <<>>, "Failed to calculate fee")
        ELSE IF Insufficient(q.balance, q.amount, fee.fee)
        THEN Reject(r, <<>>, "Insufficient balance")
        ELSE /\ pc' = [pc EXCEPT ![r] = "awaitAllowance"]
             /\ log' = [log EXCEPT ![r] = log[r] \o <<"rpc:allowance">>]
             /\ resp' = resp
  /\ UNCHANGED <<sideVars, reqs, startedAt, sent, prep, gasRes, now, chainVars,
                 processedTransactions, nestProcessed>>

\* allowance answers; validateTransferParams returns; the permit path asks
\* for ERC-2612 support, the others read the nonce
NestAllowanceResolved(r) ==
  /\ pc[r] = "awaitAllowance"
  /\ LET q == reqs[r]
         fee == NestFee(q)
     IN \E readOk \in BOOLEAN :
        IF ~readOk THEN Reject(r, <<>>, "allowance read failed")
        ELSE IF Insufficient(q.allowance, q.amount, fee.fee)
        THEN Reject(r, <<>>, "Insufficient allowance")
        ELSE IF q.api = "nestPermit"
        THEN /\ pc' = [pc EXCEPT ![r] = "awaitPermitSupport"]
             /\ log' = [log EXCEPT ![r] =
                          log[r] \o <<"VALIDATED", "rpc:checkERC2612PermitSupport">>]
             /\ resp' = resp
        ELSE /\ pc' = [pc EXCEPT ![r] = "awaitNestNonce"]
             /\ log' = [log EXCEPT ![r] =
                          log[r] \o <<"VALIDATED", "rpc:getCurrentUserNonce">>]
             /\ resp' = resp
  /\ UNCHANGED <<sideVars, reqs, startedAt, sent, prep, gasRes, now, chainVars,
                 processedTransactions, nestProcessed>>

\* checkERC2612PermitSupport answers (a failed call answers false)
NestPermitSupportResolved(r) ==
  /\ pc[r] = "awaitPermitSupport"
  /\ \E callOk \in BOOLEAN :
       IF ~(callOk /\ reqs[r].permitSupported)
       THEN Reject(r, <<>>, "Token does not support ERC2612 permit functionality")
       ELSE /\ pc' = [pc EXCEPT ![r] = "awaitNestNonce"]
            /\ log' = [log EXCEPT ![r] = log[r] \o <<"rpc:getCurrentUserNonce">>]
            /\ resp' = resp
  /\ UNCHANGED <<sideVars, reqs, startedAt, sent, prep, gasRes, now, chainVars,
                 processedTransactions, nestProcessed>>

\* the nonce read answers; the request is built with that nonce and the
\* computed fee; signature and duplicate checks; then the ContractManager
\* method starts its gas estimate
NestNonceResolved(r) ==
  /\ pc[r] = "awaitNestNonce"
  /\ LET q == reqs[r]
         nonce == chainNonce[q.chainId][q.from.who]
         fee == NestFee(q)
     IN \E readOk \in BOOLEAN :
        IF ~readOk
        THEN Reject(r, <<>>, "nonce read failed") /\ prep' = prep
        ELSE /\ prep' = [prep EXCEPT ![r] = [nonce |-> nonce, fee |-> fee.fee]]
             /\ IF ~NestVerifySignature(q, nonce, fee.fee)
                THEN Reject(r, <<>>, "Invalid signature provided")
                ELSE IF nestTxKey(q, nonce) \in nestProcessed
                THEN Reject(r, <<"SIGNATURE_OK">>, "Transaction already processed")
                ELSE /\ pc' = [pc EXCEPT ![r] = "awaitGas"]
                     /\ log' = [log EXCEPT ![r] = log[r] \o
                                  <<"SIGNATURE_OK", "NONCE_OK", "rpc:estimateGas">>]
                     /\ resp' = resp
  /\ UNCHANGED <<sideVars, reqs, startedAt, sent, gasRes, now, chainVars,
                 processedTransactions, nestProcessed>>

\* the messages estimateGas throws with: a revert reason of the contract
\* or of the token, or a failure of the call itself
RevertReasons ==
  {"ERC20: insufficient allowance", "ERC20: insufficient balance",
   "Invalid signature", "Invalid nonce", "Transaction expired",
   "Pausable: paused", "estimateGas failed"}

\* String.includes over the messages above
Includes(message, phrase) ==
  <<message, phrase>> \in
    {<<"ERC20: insufficient allowance", "insufficient allowance">>,
     <<"ERC20: insufficient balance", "insufficient balance">>,
     <<"Invalid signature", "Invalid signature">>,
     <<"Invalid nonce", "Invalid nonce">>,
     <<"Transaction expired", "Transaction expired">>}

\* the catch block of executeTransfer (lines 265-278)
ParseErrorMessage(message) ==
  IF Includes(message, "insufficient allowance")
  THEN "Insufficient token allowance. Please approve the contract first."
  ELSE IF Includes(message, "insufficient balance") THEN "Insufficient token balance"
  ELSE IF Includes(message, "Invalid signature") THEN "Invalid signature provided"
  ELSE IF Includes(message, "Invalid nonce")
  THEN "Invalid nonce. Please refresh and try again."
  ELSE IF Includes(message, "Transaction expired")
  THEN "Transaction expired. Please try again."
  ELSE "Transaction failed"

\* executeTransfer replaces the error message by a category text; the
\* gasless transfer methods throw the error on unchanged
MapRevertMessage(api, msg) ==
  IF api = "nestExecute" THEN ParseErrorMessage(msg) ELSE msg

\* const gasLimit = (gasEstimate * 120n) / 100n
BufferedGasLimit(gasEstimate) == (gasEstimate * 120) \div 100

\* estimateGas answered; gasLimit = gasEstimate * 120 / 100; the
\* transaction is sent
NestGasResolved(r) ==
  /\ pc[r] = "gasReady"
  /\ reqs[r].api \in NestApis
  /\ IF gasRes[r].status # "ok"
     THEN /\ Reject(r, <<>>, MapRevertMessage(reqs[r].api, gasRes[r].status))
          /\ sent' = sent
     ELSE /\ pc' = [pc EXCEPT ![r] = "awaitSend"]
          /\ log' = [log EXCEPT ![r] = log[r] \o <<"GAS_ESTIMATED", "rpc:send">>]
          /\ sent' = [sent EXCEPT ![r] =
                        Append(sent[r], SendRecord(r, NestEntry(reqs[r].api),
                                                   prep[r].nonce,
                                                   BufferedGasLimit(gasRes[r].estimate)))]
          /\ resp' = resp
  /\ UNCHANGED <<sideVars, reqs, startedAt, prep, gasRes, now, chainVars,
                 processedTransactions, nestProcessed>>

\* the node took the transaction or refused it; then tx.wait()
NestSendResolved(r) ==
  /\ pc[r] = "awaitSend"
  /\ reqs[r].api \in NestApis
  /\ \E accepted \in BOOLEAN :
       IF accepted
       THEN /\ pc' = [pc EXCEPT ![r] = "awaitReceipt"]
            /\ log' = [log EXCEPT ![r] = log[r] \o <<"SUBMITTED", "rpc:wait">>]
            /\ resp' = resp
            /\ mempool' = mempool \cup {r}
       ELSE /\ Reject(r, <<>>, MapRevertMessage(reqs[r].api, "send failed"))
            /\ mempool' = mempool
  /\ UNCHANGED <<sideVars, reqs, startedAt, sent, prep, gasRes, now, chainNonce, receipt,
                 processedTransactions, nestProcessed>>

\* tx.wait() answers: a receipt of a reverted transaction throws; otherwise
\* the ContractManager returns and the RelayerService marks the key
NestReceiptResolved(r) ==
  /\ pc[r] = "awaitReceipt"
  /\ receipt[r] # "none"
  /\ IF receipt[r] = "confirmed"
     THEN /\ pc' = [pc EXCEPT ![r] = "confirmed"]
          /\ log' = [log EXCEPT ![r] = log[r] \o <<"CONFIRMED">>]
          /\ resp' = [resp EXCEPT ![r] = Success("confirmed")]
          /\ nestProcessed' = nestProcessed \cup {nestTxKey(reqs[r], prep[r].nonce)}
     ELSE /\ Reject(r, <<"REVERTED">>, MapRevertMessage(reqs[r].api, "transaction reverted"))
          /\ nestProcessed' = nestProcessed
  /\ UNCHANGED <<sideVars, reqs, startedAt, sent, prep, gasRes, now, chainVars, processedTransactions>>

(***************************************************************************)
(* Environment: the clock, the node and the contract.  The contract keeps  *)
(* one nonce per user; a transfer lands only with the current nonce and an *)
(* unexpired deadline ('Invalid nonce', 'Transaction expired'), and may    *)
(* revert for other reasons (balance, allowance, signature).               *)
(***************************************************************************)
Senders == {"alice"}

TxNonce(r) == IF reqs[r].api = "express" THEN reqs[r].nonce ELSE prep[r].nonce

ContractAccepts(r) ==
  /\ TxNonce(r) = chainNonce[reqs[r].chainId][reqs[r].from.who]
  /\ reqs[r].deadline > now

Tick ==
  /\ now < MaxTime
  /\ now' = now + 1
  /\ UNCHANGED <<sideVars, reqs, taskVars, chainVars, processedTransactions, nestProcessed>>

\* what a failed estimateGas throws: the Nest ContractManagerService reads
\* the message, the Express relayer passes it on
NodeErrors(r) ==
  IF reqs[r].api \in NestApis THEN RevertReasons ELSE {"estimateGas failed"}

\* the raw estimates the node may answer with, in gas units; the second
\* task is always answered with the smaller one
NodeEstimates(r) == IF r = 1 THEN {100000, 200000} ELSE {100000}

GasAnswer(status, estimate) == [status |-> status, estimate |-> estimate]
NoGasAnswer == GasAnswer("none", Unset)

\* the node runs the estimateGas simulation; its answer travels back
NodeSimulateGas(r) ==
  /\ pc[r] = "awaitGas"
  /\ \/ /\ ContractAccepts(r)
        /\ \E raw \in NodeEstimates(r) :
             gasRes' = [gasRes EXCEPT ![r] = GasAnswer("ok", raw)]
     \/ \E res \in NodeErrors(r) :
          gasRes' = [gasRes EXCEPT ![r] = GasAnswer(res, Unset)]
  /\ pc' = [pc EXCEPT ![r] = "gasReady"]
  /\ UNCHANGED <<sideVars, reqs, startedAt, log, sent, resp, prep, now, chainVars,
                 processedTransactions, nestProcessed>>

\* a block includes the transaction of task r
Mine(r) ==
  /\ r \in mempool
  /\ mempool' = mempool \ {r}
  /\ \E lands \in BOOLEAN :
       /\ lands => ContractAccepts(r)
       /\ receipt' = [receipt EXCEPT ![r] = IF lands THEN "confirmed" ELSE "reverted"]
       /\ chainNonce' =
            IF lands
            THEN [chainNonce EXCEPT ![reqs[r].chainId][reqs[r].from.who] = @ + 1]
            ELSE chainNonce
  /\ UNCHANGED <<sideVars, reqs, taskVars, now, processedTransactions, nestProcessed>>

\* the user's nonce advances through a transfer relayed elsewhere, on a
\* chain some request is for
ExternalTransfer(c, w) ==
  /\ \/ \E r \in RIDs : reqs[r].api # "none" /\ reqs[r].chainId = c
     \/ \E n \in DOMAIN nonceCall :
          nonceCall[n].api # "none" /\ nonceCall[n].chainId = c
  /\ chainNonce[c][w] < MaxNonce
  /\ chainNonce' = [chainNonce EXCEPT ![c][w] = @ + 1]
  /\ UNCHANGED <<sideVars, reqs, taskVars, now, mempool, receipt,
                 processedTransactions, nestProcessed>>

(***************************************************************************)
(* Inbound requests.                                                       *)
(***************************************************************************)
Alice == Addr("alice", "checksum")
Bob == Addr("bob", "checksum")
Carol == Addr("carol", "checksum")

Request(api, chainId, from, to, token, amount, fee, nonce, deadline, permit, signature, balance, allowance, permitSupported) ==
  [api |-> api, chainId |-> chainId, from |-> from, to |-> to, token |-> token,
   amount |-> amount, fee |-> fee, nonce |-> nonce, deadline |-> deadline,
   permit |-> permit, signature |-> signature, balance |-> balance,
   allowance |-> allowance, permitSupported |-> permitSupported]

\* no request: the task never starts
Absent ==
  Request("none", 0, Alice, Bob, "", 0, 0, 0, 0, FALSE, MalformedSignature,
          0, 0, FALSE)

Deadlines == {1, 3}
TransferAmount == 1000
UserFee == 10

\* what a wallet signs for the Express relayer: the typed data of the request
ExpressSigned(w, chainId, from, to, token, amount, fee, nonce, deadline) ==
  Sign(w, Digest("typed", chainId, CHAIN_CONFIGS[chainId].gaslessContract,
                 TransferData(from.who, to.who, token, amount, fee, nonce,
                              deadline)))

\* what a wallet signs for the Nest relayer: the packed hash with the nonce
\* and the fee the wallet expects the relayer to resolve
NestSigned(w, chainId, from, to, token, amount, fee, nonce, deadline) ==
  Sign(w, Digest("packed", 0, CHAIN_CONFIGS[chainId].gaslessContract,
                 TransferData(from.who, to.who, token, amount, fee, nonce,
                              deadline)))

ExpressRequest(nonce, deadline, permit, signer) ==
  Request("express", BASE, Alice, Bob, "USDC", TransferAmount, UserFee, nonce,
          deadline, permit,
          ExpressSigned(signer, BASE, Alice, Bob, "USDC", TransferAmount,
                        UserFee, nonce, deadline),
          0, 0, FALSE)

NestRequest(api, signedNonce, deadline, signer, funds, permitSupported) ==
  Request(api, BASE, Alice, Bob, "USDC", TransferAmount, 0, 0, deadline,
          api = "nestPermit",
          NestSigned(signer, BASE, Alice, Bob, "USDC", TransferAmount,
                     NestCalculateFee(TransferAmount, DefaultFeeSettings,
                                      TOKEN_DECIMALS).fee,
                     signedNonce, deadline),
          funds, funds, permitSupported)

ExpressScenarios ==
  {ExpressRequest(n, d, p, w) :
     n \in 0..MaxNonce, d \in Deadlines, p \in BOOLEAN, w \in {"alice", "mallory"}}

\* the requests a second, concurrent caller sends: plain transfers signed
\* by the sender, with the late deadline
ExpressCompanions ==
  {q \in ExpressScenarios :
     /\ q.signature.signer = "alice"
     /\ ~q.permit
     /\ \A d \in Deadlines : q.deadline >= d}

\* a request signed as (Alice -> Bob, USDC, TransferAmount, UserFee, nonce 0)
\* for signedChain and then submitted on BASE with one field changed
Tampers ==
  {"none", "from", "to", "token", "amount", "relayerFee", "nonce", "deadline"}

ExpressTampered(tamper, signer, cs, signedChain, deadline, permit) ==
  Request("express", BASE,
          IF tamper = "from" THEN Addr("mallory", cs) ELSE Addr("alice", cs),
          IF tamper = "to" THEN Carol ELSE Bob,
          IF tamper = "token" THEN "PYUSD" ELSE "USDC",
          IF tamper = "amount" THEN TransferAmount + 1 ELSE TransferAmount,
          IF tamper = "relayerFee" THEN UserFee - 1 ELSE UserFee,
          IF tamper = "nonce" THEN 1 ELSE 0,
          deadline, permit,
          ExpressSigned(signer, signedChain, Alice, Bob, "USDC", TransferAmount,
                        UserFee, 0,
                        IF tamper = "deadline" THEN deadline + 1 ELSE deadline),
          0, 0, FALSE)

\* the same for the Nest relayer, which resolves nonce and fee itself
NestTampered(api, tamper, signer, deadline) ==
  Request(api, BASE, Alice,
          IF tamper = "to" THEN Carol ELSE Bob,
          "USDC",
          IF tamper = "amount" THEN TransferAmount + 1 ELSE TransferAmount,
          0, 0, deadline, api = "nestPermit",
          NestSigned(signer, BASE, Alice, Bob, "USDC", TransferAmount,
                     NestCalculateFee(TransferAmount, DefaultFeeSettings,
                                      TOKEN_DECIMALS).fee,
                     IF tamper = "nonce" THEN 1 ELSE 0,
                     IF tamper = "deadline" THEN deadline + 1 ELSE deadline),
          5 * TransferAmount, 5 * TransferAmount, TRUE)

\* a signed Express request that names the fee the sender chose
ExpressFeeRequest(fee, permit) ==
  Request("express", BASE, Alice, Bob, "USDC", TransferAmount, fee, 0, 3, permit,
          ExpressSigned("alice", BASE, Alice, Bob, "USDC", TransferAmount, fee, 0, 3),
          0, 0, FALSE)

\* a signed transfer of a token the chain's configuration does not list
UnlistedToken == "DAI"

ExpressTokenRequest(token, permit) ==
  Request("express", BASE, Alice, Bob, token, TransferAmount, UserFee, 0, 3, permit,
          ExpressSigned("alice", BASE, Alice, Bob, token, TransferAmount, UserFee, 0, 3),
          0, 0, FALSE)

NestTokenRequest(api, token) ==
  Request(api, BASE, Alice, Bob, token, TransferAmount, 0, 0, 3, api = "nestPermit",
          NestSigned("alice", BASE, Alice, Bob, token, TransferAmount,
                     NestCalculateFee(TransferAmount, DefaultFeeSettings,
                                      TOKEN_DECIMALS).fee,
                     0, 3),
          5 * TransferAmount, 5 * TransferAmount, TRUE)

\* a signed Nest transfer of a sender who holds balance tokens and has
\* approved allowance of them to the relayer contract
NestFundsRequest(api, balance, allowance) ==
  [NestRequest(api, 0, 3, "alice", 0, TRUE) EXCEPT
     !.balance = balance, !.allowance = allowance]

\* transferAmount + fee of the transfers above
TotalRequired ==
  TransferAmount
    + NestCalculateFee(TransferAmount, DefaultFeeSettings, TOKEN_DECIMALS).fee

FundLevels == {0, TotalRequired - 1, TotalRequired}

PathScenarios ==
  {NestFundsRequest(api, b, a) : api \in NestApis, b \in FundLevels, a \in FundLevels}
  \cup
  {ExpressFeeRequest(f, p) : f \in {0, TransferAmount}, p \in BOOLEAN}
  \cup {ExpressTokenRequest(UnlistedToken, p) : p \in BOOLEAN}
  \cup {NestTokenRequest(api, UnlistedToken) : api \in NestApis}
  \cup
  {ExpressTampered(t, w, cs, c, d, p) :
     t \in Tampers, w \in {"alice", "mallory"}, cs \in {"checksum", "lower"},
     c \in {BASE, ARBITRUM}, d \in Deadlines, p \in BOOLEAN}
  \cup {NestTampered(api, t, w, d) :
          api \in NestApis, t \in {"none", "to", "amount", "nonce", "deadline"},
          w \in {"alice", "mallory"}, d \in Deadlines}
  \cup {NestRequest(api, 0, 3, "alice", f, ps) :
          api \in NestApis, f \in {0, 5 * TransferAmount}, ps \in BOOLEAN}
  \cup {[ExpressRequest(0, 3, FALSE, "alice") EXCEPT !.signature = MalformedSignature],
        [ExpressRequest(0, 3, FALSE, "alice") EXCEPT !.chainId = KADENA],
        [ExpressRequest(0, 3, FALSE, "alice") EXCEPT !.chainId = 1],
        [ExpressRequest(0, 3, FALSE, "alice") EXCEPT
           !.signature = NestSigned("alice", BASE, Alice, Bob, "USDC",
                                    TransferAmount, UserFee, 0, 3)]}

(***************************************************************************)
(* PythPriceService.getPrice for one feed id: the cache entry, concurrent  *)
(* callers, and the oracle answering each outbound fetch on its own.       *)
(***************************************************************************)
CACHE_DURATION_MS == 30000
MaxClock == 30000
MaxPriceCalls == 3

ClockSteps == {15000}
PriceCallers == {1, 2}

\* what the oracle may quote: mantissa and exponent as the feed reports them
OracleQuotes == {Price(1, 0), Price(2, 0), Price(0, 0), Price(-1, 0)}

NoCacheEntry == [has |-> FALSE, price |-> NullPrice, timestamp |-> 0]
CacheEntry(price, t) == [has |-> TRUE, price |-> price, timestamp |-> t]

\* cached && Date.now() - cached.timestamp < CACHE_DURATION_MS
IsFresh(entry, t) == entry.has /\ t - entry.timestamp < CACHE_DURATION_MS

IdlePriceCall ==
  [pc |-> "idle", start |-> -1, outcome |-> "none", result |-> NullPrice,
   held |-> NoCacheEntry]

\* the call of caller c returns: how it ended, what it returned, and the
\* cache entry it left aside
PriceCallDone(c, outcome, result) ==
  [pc |-> "idle", start |-> priceCall[c].start, outcome |-> outcome,
   result |-> result, held |-> priceCache]

\* getPrice up to its first await: a fresh entry is returned at once,
\* otherwise the fetch is issued
GetPriceStart(c) ==
  /\ priceCall[c].pc = "idle"
  /\ priceIssued < MaxPriceCalls
  /\ priceIssued' = priceIssued + 1
  /\ priceCall' =
       [priceCall EXCEPT ![c] =
          IF IsFresh(priceCache, clock)
          THEN [pc |-> "idle", start |-> clock, outcome |-> "cached",
                result |-> priceCache.price, held |-> priceCache]
          ELSE [pc |-> "fetching", start |-> clock, outcome |-> "none",
                result |-> NullPrice, held |-> NoCacheEntry]]
  /\ UNCHANGED <<relayVars, auxVars, feeVars, clock, priceCache, cacheWrites, gasVars>>

\* axios.get answers or throws: an error and an empty result set return
\* null; a quote is cached with the time of its arrival and returned
GetPriceFetchResolved(c) ==
  /\ priceCall[c].pc = "fetching"
  /\ \E kind \in {"failed", "empty", "quote"}, q \in OracleQuotes :
       IF kind = "quote"
       THEN /\ priceCache' = CacheEntry(q, clock)
            /\ cacheWrites' = Append(cacheWrites, [at |-> clock, price |-> q])
            /\ priceCall' = [priceCall EXCEPT ![c] = PriceCallDone(c, "fetched", q)]
       ELSE /\ priceCall' = [priceCall EXCEPT ![c] = PriceCallDone(c, kind, NullPrice)]
            /\ UNCHANGED <<priceCache, cacheWrites>>
  /\ UNCHANGED <<relayVars, auxVars, feeVars, clock, priceIssued, gasVars>>

ClockTick ==
  /\ \E d \in ClockSteps : clock + d <= MaxClock /\ clock' = clock + d
  /\ UNCHANGED <<relayVars, auxVars, feeVars, priceVars, gasVars>>

PriceIdle ==
  /\ priceCache = NoCacheEntry
  /\ priceCall = [c \in PriceCallers |-> IdlePriceCall]
  /\ priceIssued = 0
  /\ cacheWrites = <<>>

(***************************************************************************)
(* Gas estimation.  GasEstimationService keeps a gas price cache keyed by  *)
(* chain name; GasService reads the chain's gasSettings.  Prices are in    *)
(* units of 10^6 wei, gas in gas units.                                    *)
(***************************************************************************)
MaxGasCalls == 3

Gwei(n) == n * 1000

\* a JavaScript value is truthy unless it is absent or 0n / 0
Truthy(x) == x # Unset /\ x # 0
\* a || b
OrElse(a, b) == IF Truthy(a) THEN a ELSE b

GasCallers == {1, 2}
GasChains == {BASE, ARBITRUM}

GAS_SETTINGS ==
  [c \in {KADENA, BASE, ARBITRUM} |->
     CASE c = KADENA ->
            [maxFeePerGas |-> 2000, maxPriorityFeePerGas |-> 1500, gasLimit |-> 300000]
       [] c = BASE ->
            [maxFeePerGas |-> 2000, maxPriorityFeePerGas |-> 1000, gasLimit |-> 200000]
       [] c = ARBITRUM ->
            [maxFeePerGas |-> 100, maxPriorityFeePerGas |-> 10, gasLimit |-> 500000]]

GasOptions(maxGasPrice, fallbackGasPrice, gasMultiplier) ==
  [maxGasPrice |-> maxGasPrice, fallbackGasPrice |-> fallbackGasPrice,
   gasMultiplier |-> gasMultiplier]

\* options = {} by default; the relayer controller passes a multiplier of
\* 1.2, a maximum of 100 gwei and a fallback of 20 gwei.  Multipliers are
\* in tenths.
NoGasOptions == GasOptions(Unset, Unset, Unset)
ControllerGasOptions == GasOptions(Gwei(100), Gwei(20), 12)
GasOptionSets ==
  { NoGasOptions, ControllerGasOptions, GasOptions(0, Unset, Unset),
    GasOptions(Gwei(1), Unset, 15), GasOptions(Gwei(1), Gwei(5), Unset) }

\* provider.getFeeData(): rejects, or resolves with fields that may be null
FeeData(ok, gasPrice, maxFeePerGas, maxPriorityFeePerGas) ==
  [ok |-> ok, gasPrice |-> gasPrice, maxFeePerGas |-> maxFeePerGas,
   maxPriorityFeePerGas |-> maxPriorityFeePerGas]
FeeDataAnswers ==
  { FeeData(FALSE, Unset, Unset, Unset), FeeData(TRUE, Unset, Unset, Unset),
    FeeData(TRUE, Gwei(3), Unset, Unset), FeeData(TRUE, Unset, Gwei(4), Gwei(1)) }

\* estimateGas of the node: rejects (Unset) or resolves with a raw estimate
RawEstimates == {1, 100000, 200000}
EstimateAnswers == {Unset} \cup RawEstimates

DEFAULT_GAS_MULTIPLIER == 12
FALLBACK_GAS_PRICE_GWEI == 20

NoGasPriceEntry == [has |-> FALSE, price |-> 0, timestamp |-> 0]

IdleGasCall ==
  [op |-> "none", pc |-> "idle", chain |-> BASE, options |-> NoGasOptions,
   now |-> -1, raw |-> Unset, outcome |-> "none", price |-> Unset,
   priority |-> Unset, gasLimit |-> Unset]

\* the mutation of applyGasPriceLimits that returns the price as it is
NoGasPriceLimits(gasPrice, options) == gasPrice

applyGasPriceLimits(gasPrice, options) ==
  IF Truthy(options.maxGasPrice) /\ gasPrice > options.maxGasPrice
  THEN options.maxGasPrice
  ELSE gasPrice

\* Math.ceil(Number(gasEstimate) * gasMultiplier), multiplier in tenths
CeilTimes(gasEstimate, tenths) == (gasEstimate * tenths + 9) \div 10

\* estimateTransferGas after both awaits: the buffered limit and the result
TransferGasResult(call, gasPrice, outcome) ==
  [call EXCEPT !.pc = "idle", !.now = -1, !.outcome = outcome, !.price = gasPrice,
               !.gasLimit = CeilTimes(call.raw,
                              OrElse(call.options.gasMultiplier, DEFAULT_GAS_MULTIPLIER))]

GasPriceResult(call, gasPrice, outcome) ==
  IF call.op = "estimateTransferGas"
  THEN TransferGasResult(call, gasPrice, outcome)
  ELSE [call EXCEPT !.pc = "idle", !.now = -1, !.outcome = outcome, !.price = gasPrice]

\* getGasPrice up to its await: now is read first, a fresh entry is
\* returned through the limits, otherwise getFeeData is issued
EnterGetGasPrice(call) ==
  LET entered == [call EXCEPT !.now = clock]
      cached == gasPriceCache[call.chain] IN
    IF cached.has /\ clock - cached.timestamp < CACHE_DURATION_MS
    THEN GasPriceResult(entered, applyGasPriceLimits(cached.price, call.options), "cached")
    ELSE [entered EXCEPT !.pc = "feeData"]

NewGasCall(op, chain, options) ==
  [IdleGasCall EXCEPT !.op = op, !.chain = chain, !.options = options]

\* the calls a caller makes: the first caller any call of either service,
\* the second one getGasPrice on one chain, without options or with a
\* maximum and a fallback
CompanionGasOptions == {NoGasOptions, GasOptions(Gwei(1), Gwei(5), Unset)}
GasCallsOf(c, op) ==
  IF c = 1
  THEN {NewGasCall(op, chain, options) :
          chain \in GasChains,
          options \in IF op \in {"getGasPrice", "estimateTransferGas"}
                      THEN GasOptionSets ELSE {NoGasOptions}}
  ELSE IF op = "getGasPrice"
       THEN {NewGasCall(op, BASE, options) : options \in CompanionGasOptions}
       ELSE {}

GetGasPriceStart(c) ==
  /\ gasCall[c].pc = "idle"
  /\ gasIssued < MaxGasCalls
  /\ gasIssued' = gasIssued + 1
  /\ \E call \in GasCallsOf(c, "getGasPrice") :
       gasCall' = [gasCall EXCEPT ![c] = EnterGetGasPrice(call)]
  /\ UNCHANGED <<relayVars, auxVars, feeVars, clock, priceVars, gasPriceCache>>

\* getFeeData settles inside getGasPrice: a price is cached under the time
\* read at entry and returned through the limits; a rejection or a null
\* price falls back to options.fallbackGasPrice || 20 gwei
GetGasPriceFeeDataResolved(c) ==
  /\ gasCall[c].pc = "feeData"
  /\ gasCall[c].op \in {"getGasPrice", "estimateTransferGas"}
  /\ \E feeData \in FeeDataAnswers :
       LET call == gasCall[c]
           gasPrice == OrElse(feeData.gasPrice, feeData.maxFeePerGas)
           fallbackPrice == OrElse(call.options.fallbackGasPrice,
                                   Gwei(FALLBACK_GAS_PRICE_GWEI)) IN
         IF feeData.ok /\ Truthy(gasPrice)
         THEN /\ gasPriceCache' =
                   [gasPriceCache EXCEPT ![call.chain] =
                      [has |-> TRUE, price |-> gasPrice, timestamp |-> call.now]]
              /\ gasCall' = [gasCall EXCEPT ![c] =
                   GasPriceResult(call, applyGasPriceLimits(gasPrice, call.options),
                                  "fetched")]
         ELSE /\ gasCall' = [gasCall EXCEPT ![c] =
                   GasPriceResult(call, applyGasPriceLimits(fallbackPrice, call.options),
                                  "fallback")]
              /\ UNCHANGED gasPriceCache
  /\ UNCHANGED <<relayVars, auxVars, feeVars, clock, priceVars, gasIssued>>

EstimateTransferGasStart(c) ==
  /\ gasCall[c].pc = "idle"
  /\ gasIssued < MaxGasCalls
  /\ gasIssued' = gasIssued + 1
  /\ \E call \in GasCallsOf(c, "estimateTransferGas") :
       gasCall' = [gasCall EXCEPT ![c] = [call EXCEPT !.pc = "estimating"]]
  /\ UNCHANGED <<relayVars, auxVars, feeVars, clock, priceVars, gasPriceCache>>

\* getGasEstimate settles: a rejection is rethrown, an estimate is kept and
\* getGasPrice is entered
GetGasEstimateResolved(c) ==
  /\ gasCall[c].pc = "estimating"
  /\ gasCall[c].op = "estimateTransferGas"
  /\ \E raw \in EstimateAnswers :
       gasCall' = [gasCall EXCEPT ![c] =
                     IF raw = Unset
                     THEN [@ EXCEPT !.pc = "idle", !.outcome = "threw"]
                     ELSE EnterGetGasPrice([@ EXCEPT !.raw = raw])]
  /\ UNCHANGED <<relayVars, auxVars, feeVars, clock, priceVars, gasPriceCache, gasIssued>>

\* GasService.estimateGas: 20% buffer by integer division, capped at the
\* chain's gasLimit; the gasLimit itself when the node rejects
GasServiceBuffered(gasEstimate) == (gasEstimate * 120) \div 100

GasServiceEstimateGasStart(c) ==
  /\ gasCall[c].pc = "idle"
  /\ gasIssued < MaxGasCalls
  /\ gasIssued' = gasIssued + 1
  /\ \E call \in GasCallsOf(c, "estimateGas") :
       gasCall' = [gasCall EXCEPT ![c] = [call EXCEPT !.pc = "estimating"]]
  /\ UNCHANGED <<relayVars, auxVars, feeVars, clock, priceVars, gasPriceCache>>

GasServiceEstimateGasResolved(c) ==
  /\ gasCall[c].pc = "estimating"
  /\ gasCall[c].op = "estimateGas"
  /\ \E raw \in EstimateAnswers :
       LET maxGas == GAS_SETTINGS[gasCall[c].chain].gasLimit IN
         gasCall' = [gasCall EXCEPT ![c] =
                       IF raw = Unset
                       THEN [@ EXCEPT !.pc = "idle", !.outcome = "fallback",
                                      !.gasLimit = maxGas]
                       ELSE [@ EXCEPT !.pc = "idle", !.outcome = "fetched",
                                      !.raw = raw,
                                      !.gasLimit = Min(GasServiceBuffered(raw), maxGas)]]
  /\ UNCHANGED <<relayVars, auxVars, feeVars, clock, priceVars, gasPriceCache, gasIssued>>

\* GasService.getGasPrices: EIP-1559 fee data with a 10% buffer, or the
\* chain's configured gasSettings
GasServiceGetGasPricesStart(c) ==
  /\ gasCall[c].pc = "idle"
  /\ gasIssued < MaxGasCalls
  /\ gasIssued' = gasIssued + 1
  /\ \E call \in GasCallsOf(c, "getGasPrices") :
       gasCall' = [gasCall EXCEPT ![c] = [call EXCEPT !.pc = "feeData"]]
  /\ UNCHANGED <<relayVars, auxVars, feeVars, clock, priceVars, gasPriceCache>>

GasServiceGetGasPricesResolved(c) ==
  /\ gasCall[c].pc = "feeData"
  /\ gasCall[c].op = "getGasPrices"
  /\ \E feeData \in FeeDataAnswers :
       LET settings == GAS_SETTINGS[gasCall[c].chain] IN
         gasCall' = [gasCall EXCEPT ![c] =
           IF feeData.ok /\ Truthy(feeData.maxFeePerGas)
                         /\ Truthy(feeData.maxPriorityFeePerGas)
           THEN [@ EXCEPT !.pc = "idle", !.outcome = "fetched",
                          !.price = (feeData.maxFeePerGas * 110) \div 100,
                          !.priority = (feeData.maxPriorityFeePerGas * 110) \div 100]
           ELSE [@ EXCEPT !.pc = "idle", !.outcome = "fallback",
                          !.price = settings.maxFeePerGas,
                          !.priority = settings.maxPriorityFeePerGas]]
  /\ UNCHANGED <<relayVars, auxVars, feeVars, clock, priceVars, gasPriceCache, gasIssued>>

GasIdle ==
  /\ gasPriceCache = [c \in GasChains |-> NoGasPriceEntry]
  /\ gasCall = [c \in GasCallers |-> IdleGasCall]
  /\ gasIssued = 0

(***************************************************************************)
(* Batch transfers: relayBatchStandardTransfers / relayBatchPermitTransfers*)
(* of the Express RelayerService, and the batch methods of the Nest        *)
(* RelayerService and ContractManagerService.                              *)
(***************************************************************************)
MAX_BATCH_SIZE == 10

\* an array of the request body, or undefined
Array(n) == [present |-> TRUE, items |-> [i \in 1..n |-> i]]
Undefined == [present |-> FALSE, items |-> <<>>]
Length(a) == Len(a.items)

BatchLengths == {0, 2, MAX_BATCH_SIZE, MAX_BATCH_SIZE + 1}
BatchArrays == {Undefined} \cup {Array(n) : n \in BatchLengths}
BatchApis == {"express", "nestRelayer", "nestContractManager"}

BatchRequest(api, variant, chainId, requests, signatures, permits) ==
  [api |-> api, variant |-> variant, chainId |-> chainId, requests |-> requests,
   signatures |-> signatures, permits |-> permits]

NoBatch == BatchRequest("none", "standard", BASE, Undefined, Undefined, Undefined)

BatchInputs ==
  {BatchRequest(api, variant, chainId, requests, signatures, permits) :
     api \in BatchApis, variant \in {"standard", "permit"}, chainId \in {BASE, 1},
     requests \in BatchArrays, signatures \in BatchArrays, permits \in BatchArrays}

BatchRun(at, calls, response) == [pc |-> at, calls |-> calls, resp |-> response]
NoBatchRun == BatchRun("new", <<>>, NoResp)

BatchMethod(variant) ==
  IF variant = "permit" THEN "processBatchPermitBasedTransfers"
  ELSE "processBatchStandardTransfers"

\* a batch method that accepts batches of any size
NoBatchLimit(n) == FALSE

\* batchRequest.requests.length > 10
ExceedsBatchLimit(n) == n > MAX_BATCH_SIZE

\* the checks of relayBatchStandardTransfers / relayBatchPermitTransfers
\* before the contract call: reading .length of an absent array throws
\* into the catch, getContract throws for a chain without contract
BatchCheckError(in) ==
  IF in.variant = "permit" /\ ~in.permits.present
  THEN "Requests, signatures, and permits length mismatch"
  ELSE IF ~in.requests.present \/ ~in.signatures.present
  THEN "Cannot read properties of undefined"
  ELSE IF in.variant = "permit" /\
          (\/ Length(in.requests) # Length(in.signatures)
           \/ Length(in.requests) # Length(in.permits))
  THEN "Requests, signatures, and permits length mismatch"
  ELSE IF in.variant = "standard" /\ Length(in.requests) # Length(in.signatures)
  THEN "Requests and signatures length mismatch"
  ELSE IF ExceedsBatchLimit(Length(in.requests))
  THEN "Too many transfers in batch (max 10)"
  ELSE IF in.chainId \notin InitializedChains
  THEN "Contract not initialized for chain"
  ELSE "ok"

\* the batch method up to its await: a failed check answers success =
\* false, otherwise the one contract call is issued
RelayBatchStart ==
  /\ batchIn.api = "express"
  /\ batchRun.pc = "new"
  /\ LET err == BatchCheckError(batchIn) IN
       batchRun' =
         IF err # "ok" THEN BatchRun("rejected", <<>>, Failure(err))
         ELSE BatchRun("awaitSend",
                       <<[method |-> BatchMethod(batchIn.variant),
                          size |-> Length(batchIn.requests)]>>,
                       NoResp)
  /\ UNCHANGED <<relayVars, feeVars, svcVars, batchIn, lookupVars, nonceVars, safetyVars>>

\* the node took the batch transaction or refused it
RelayBatchSendResolved ==
  /\ batchIn.api = "express"
  /\ batchRun.pc = "awaitSend"
  /\ \E accepted \in BOOLEAN :
       batchRun' =
         IF accepted
         THEN [batchRun EXCEPT !.pc = "submitted",
                               !.resp = Success("Batch transaction submitted successfully")]
         ELSE [batchRun EXCEPT !.pc = "rejected", !.resp = Failure("send failed")]
  /\ UNCHANGED <<relayVars, feeVars, svcVars, batchIn, lookupVars, nonceVars, safetyVars>>

\* a batch method that submits the transfers of the batch one by one
SequentialSubmission(in) ==
  BatchRun("submitted",
           [i \in 1..Length(in.requests) |->
              [method |-> "processStandardGaslessTransfer", size |-> 1]],
           Success("Batch transaction submitted successfully"))

\* the Nest batch methods throw before doing anything
NotImplemented(in) ==
  BatchRun("threw", <<>>,
           Failure(IF in.variant = "permit"
                   THEN "Batch permit-based transfers not implemented yet"
                   ELSE "Batch standard transfers not implemented yet"))

NestBatchCall ==
  /\ batchIn.api \in {"nestRelayer", "nestContractManager"}
  /\ batchRun.pc = "new"
  /\ batchRun' = NotImplemented(batchIn)
  /\ UNCHANGED <<relayVars, feeVars, svcVars, batchIn, lookupVars, nonceVars, safetyVars>>

BatchIdle == batchIn = NoBatch /\ batchRun = NoBatchRun

(***************************************************************************)
(* ChainConfigService lookups, asked once for a chain name and a symbol.   *)
(***************************************************************************)
LookupChains == {KADENA, BASE, ARBITRUM, 0, 1}
LookupSymbols == {"USDC", "PYUSD", "TUSDC", "DAI", ""} \cup ObjectPrototypeKeys
LookupOps == {"getChainConfig", "getTokenConfig"}

NoLookup == [op |-> "none", chainName |-> 0, tokenSymbol |-> ""]
NoLookupResult == [LookupResult(FALSE, "none", 0, "", "") EXCEPT !.done = FALSE]

LookupInputs ==
  {[op |-> op, chainName |-> c, tokenSymbol |-> t] :
     op \in LookupOps, c \in LookupChains, t \in LookupSymbols}

GetChainConfig ==
  /\ lookupIn.op = "getChainConfig"
  /\ ~lookupOut.done
  /\ lookupOut' = ChainConfigLookup(chains, lookupIn.chainName)
  /\ UNCHANGED <<relayVars, feeVars, svcVars, batchVars, chains, lookupIn, nonceVars, safetyVars>>

GetTokenConfig ==
  /\ lookupIn.op = "getTokenConfig"
  /\ ~lookupOut.done
  /\ lookupOut' = TokenConfigLookup(chains, lookupIn.chainName, lookupIn.tokenSymbol)
  /\ UNCHANGED <<relayVars, feeVars, svcVars, batchVars, chains, lookupIn, nonceVars, safetyVars>>

LookupIdle ==
  chains = CHAIN_CONFIGS /\ lookupIn = NoLookup /\ lookupOut = NoLookupResult

(***************************************************************************)
(* getUserNonce of both relayers, asked by the nonce routes.               *)
(***************************************************************************)
NonceCallers == {1, 2}
NonceApis == {"express", "nest"}
NonceChains == {KADENA, BASE, ARBITRUM, 1}

NonceCall(api, chainId, user) ==
  [api |-> api, chainId |-> chainId, user |-> user, pc |-> "new",
   read |-> Unset, outcome |-> "none", nonce |-> Unset]

NoNonceCall == NonceCall("none", BASE, "alice")

NonceInputs ==
  {NonceCall(api, chainId, user) :
     api \in NonceApis, chainId \in NonceChains, user \in Senders}

\* the catch block of the Express getUserNonce: log, return '0'
ZeroOnError(call) ==
  [call EXCEPT !.pc = "done", !.outcome = "returned", !.nonce = 0]

\* the catch block of the Nest getUserNonce: log, throw error
Rethrow(call) == [call EXCEPT !.pc = "done", !.outcome = "threw"]

NonceReadFailed(call) ==
  IF call.api = "express" THEN ZeroOnError(call) ELSE Rethrow(call)

\* getContract of the service throws for a chain it holds no contract for
HasNonceContract(call) ==
  IF call.api = "express" THEN call.chainId \in InitializedChains
  ELSE ~NestChainConfigThrows(call.chainId)

\* getUserNonce up to the await of contract.getCurrentUserNonce
GetUserNonceStart(c) ==
  /\ nonceCall[c].pc = "new"
  /\ nonceCall[c].api # "none"
  /\ nonceCall' =
       [nonceCall EXCEPT ![c] =
          IF HasNonceContract(@) THEN [@ EXCEPT !.pc = "awaitRead"]
          ELSE NonceReadFailed(@)]
  /\ UNCHANGED <<relayVars, feeVars, svcVars, batchVars, lookupVars, safetyVars>>

\* the read answers with the contract's value, or rejects
GetUserNonceResolved(c) ==
  /\ nonceCall[c].pc = "awaitRead"
  /\ \E readOk \in BOOLEAN :
       LET call == nonceCall[c]
           onChain == chainNonce[call.chainId][call.user] IN
         nonceCall' =
           [nonceCall EXCEPT ![c] =
              IF readOk
              THEN [call EXCEPT !.pc = "done", !.outcome = "returned",
                                !.read = onChain, !.nonce = onChain]
              ELSE NonceReadFailed(call)]
  /\ UNCHANGED <<relayVars, feeVars, svcVars, batchVars, lookupVars, safetyVars>>

NonceIdle == nonceCall = [c \in NonceCallers |-> NoNonceCall]

(***************************************************************************)
(* SafetyMonitor: the daily volume of a chain lives in the daily_volumes   *)
(* table, the daily volume of a user under a redis key.  A caller checks   *)
(* the limits and, when allowed, records the transfer.  Amounts are whole  *)
(* USD.                                                                    *)
(***************************************************************************)
MAX_DAILY_VOLUME_USD == 10000
MAX_SINGLE_TRANSACTION_USD == 1000
USER_DAILY_LIMIT == 1000

SafetyCallers == {1, 2}
SafetyChains == {BASE, ARBITRUM}
SafetyUsers == {"alice", "bob"}
\* what convertToUsd yields for the transfers asked
TransactionUsd == {400, 600, 1001}
\* volume_usd of today's row when the callers arrive
StoredDailyVolumes == {0, 9000}

SafetyCall(chainId, user, usd) ==
  [chainId |-> chainId, user |-> user, usd |-> usd, pc |-> "new",
   allowed |-> FALSE, reason |-> "", held |-> 0, faults |-> 0]

NoSafetyCall == [SafetyCall(BASE, "alice", 0) EXCEPT !.pc = "idle"]

SafetyInputs ==
  {SafetyCall(chainId, user, usd) :
     chainId \in SafetyChains, user \in SafetyUsers, usd \in TransactionUsd}

Denied(call, reason) == [call EXCEPT !.pc = "denied", !.reason = reason]

\* checkTransactionLimits up to the await of getDailyVolume
CheckTransactionLimitsStart(c) ==
  /\ safetyCall[c].pc = "new"
  /\ safetyCall' =
       [safetyCall EXCEPT ![c] =
          IF @.usd > MAX_SINGLE_TRANSACTION_USD
          THEN Denied(@, "exceeds maximum allowed")
          ELSE [@ EXCEPT !.pc = "awaitDailyVolume"]]
  /\ UNCHANGED <<relayVars, feeVars, svcVars, batchVars, lookupVars, nonceVars,
                 dailyVolumes, userVolumes>>

\* getDailyVolume answers (0 when the query fails); the daily limit is
\* checked and getUserDailyVolume is asked
CheckDailyVolumeResolved(c) ==
  /\ safetyCall[c].pc = "awaitDailyVolume"
  /\ \E readOk \in BOOLEAN :
       LET call == safetyCall[c]
           currentDailyVolume == IF readOk THEN dailyVolumes[call.chainId] ELSE 0
           seen == [call EXCEPT !.faults = IF readOk THEN @ ELSE @ + 1] IN
         safetyCall' =
           [safetyCall EXCEPT ![c] =
              IF currentDailyVolume + call.usd > MAX_DAILY_VOLUME_USD
              THEN Denied(seen, "would exceed daily volume limit")
              ELSE [seen EXCEPT !.pc = "awaitUserVolume"]]
  /\ UNCHANGED <<relayVars, feeVars, svcVars, batchVars, lookupVars, nonceVars,
                 dailyVolumes, userVolumes>>

\* getUserDailyVolume answers (0 when redis fails); the user limit is
\* checked and the verdict returned
CheckUserVolumeResolved(c) ==
  /\ safetyCall[c].pc = "awaitUserVolume"
  /\ \E readOk \in BOOLEAN :
       LET call == safetyCall[c]
           userDailyVolume ==
             IF readOk THEN userVolumes[call.chainId][call.user] ELSE 0
           seen == [call EXCEPT !.faults = IF readOk THEN @ ELSE @ + 1] IN
         safetyCall' =
           [safetyCall EXCEPT ![c] =
              IF userDailyVolume + call.usd > USER_DAILY_LIMIT
              THEN Denied(seen, "would exceed user daily limit")
              ELSE [seen EXCEPT !.pc = "allowed", !.allowed = TRUE]]
  /\ UNCHANGED <<relayVars, feeVars, svcVars, batchVars, lookupVars, nonceVars,
                 dailyVolumes, userVolumes>>

\* recordTransaction: the upsert adds the amount to today's row in one
\* statement; a failure ends in the catch, which only logs
RecordDailyVolume(c) ==
  /\ safetyCall[c].pc = "allowed"
  /\ \E writeOk \in BOOLEAN :
       LET call == safetyCall[c] IN
         IF writeOk
         THEN /\ dailyVolumes' = [dailyVolumes EXCEPT ![call.chainId] = @ + call.usd]
              /\ safetyCall' = [safetyCall EXCEPT ![c].pc = "awaitCachedVolume"]
         ELSE /\ dailyVolumes' = dailyVolumes
              /\ safetyCall' = [safetyCall EXCEPT ![c].pc = "recordFailed",
                                                  ![c].faults = @ + 1]
  /\ UNCHANGED <<relayVars, feeVars, svcVars, batchVars, lookupVars, nonceVars,
                 userVolumes>>

\* getUserDailyVolumeFromCache answers (0 when redis fails)
RecordCachedVolumeResolved(c) ==
  /\ safetyCall[c].pc = "awaitCachedVolume"
  /\ \E readOk \in BOOLEAN :
       LET call == safetyCall[c] IN
         safetyCall' =
           [safetyCall EXCEPT
              ![c].pc = "awaitSetEx",
              ![c].held = IF readOk THEN userVolumes[call.chainId][call.user] ELSE 0,
              ![c].faults = IF readOk THEN @ ELSE @ + 1]
  /\ UNCHANGED <<relayVars, feeVars, svcVars, batchVars, lookupVars, nonceVars,
                 dailyVolumes, userVolumes>>

\* redis.setEx stores currentUserVolume + transactionUsd, or fails
RecordSetExResolved(c) ==
  /\ safetyCall[c].pc = "awaitSetEx"
  /\ \E writeOk \in BOOLEAN :
       LET call == safetyCall[c] IN
         IF writeOk
         THEN /\ userVolumes' = [userVolumes EXCEPT ![call.chainId][call.user] =
                                   call.held + call.usd]
              /\ safetyCall' = [safetyCall EXCEPT ![c].pc = "recorded"]
         ELSE /\ userVolumes' = userVolumes
              /\ safetyCall' = [safetyCall EXCEPT ![c].pc = "recordFailed",
                                                  ![c].faults = @ + 1]
  /\ UNCHANGED <<relayVars, feeVars, svcVars, batchVars, lookupVars, nonceVars,
                 dailyVolumes>>

NoUserVolumes == [ch \in SafetyChains |-> [u \in SafetyUsers |-> 0]]

SafetyIdle ==
  /\ dailyVolumes = [ch \in SafetyChains |-> 0]
  /\ userVolumes = NoUserVolumes
  /\ safetyCall = [c \in SafetyCallers |-> NoSafetyCall]

AuxIdle == BatchIdle /\ LookupIdle /\ NonceIdle /\ SafetyIdle

ServicesIdle == clock = 0 /\ PriceIdle /\ GasIdle /\ AuxIdle

RelayInit(R) ==
  /\ reqs \in R
  /\ pc = [r \in RIDs |-> "new"]
  /\ startedAt = [r \in RIDs |-> -1]
  /\ log = [r \in RIDs |-> <<>>]
  /\ sent = [r \in RIDs |-> <<>>]
  /\ resp = [r \in RIDs |-> NoResp]
  /\ prep = [r \in RIDs |-> NoPrep]
  /\ gasRes = [r \in RIDs |-> NoGasAnswer]
  /\ now = 0
  /\ chainNonce = [c \in InitializedChains |-> [w \in Senders |-> 0]]
  /\ mempool = {}
  /\ receipt = [r \in RIDs |-> "none"]
  /\ processedTransactions = {}
  /\ nestProcessed = {}

vars == <<relayVars, feeVars, svcVars, auxVars>>

EnvNext ==
  \/ Tick
  \/ \E r \in RIDs : NodeSimulateGas(r)
  \/ \E r \in RIDs : Mine(r)
  \/ \E c \in InitializedChains, w \in Senders : ExternalTransfer(c, w)

ExpressNext ==
  \/ \E r \in RIDs : ExpressStart(r)
  \/ \E r \in RIDs : ExpressReplayCheck(r)
  \/ \E r \in RIDs : ExpressNonceResolved(r)
  \/ \E r \in RIDs : ExpressGasResolved(r)
  \/ \E r \in RIDs : ExpressSendResolved(r)

NestNext ==
  \/ \E r \in RIDs : NestStart(r)
  \/ \E r \in RIDs : NestBalanceResolved(r)
  \/ \E r \in RIDs : NestAllowanceResolved(r)
  \/ \E r \in RIDs : NestPermitSupportResolved(r)
  \/ \E r \in RIDs : NestNonceResolved(r)
  \/ \E r \in RIDs : NestGasResolved(r)
  \/ \E r \in RIDs : NestSendResolved(r)
  \/ \E r \in RIDs : NestReceiptResolved(r)

\* the Express relayer serving two concurrent requests
NoFeeAsked == feeIn = NoFeeInput /\ feeOut = NoFeeOutput

InitExpress ==
  /\ RelayInit({R \in [RIDs -> ExpressScenarios] : R[2] \in ExpressCompanions})
  /\ NoFeeAsked
  /\ ServicesIdle
NextExpress == ExpressNext \/ EnvNext
SpecExpress == InitExpress /\ [][NextExpress]_vars

(***************************************************************************)
(* Fee estimates: the Express route /fee and the Nest calculateFee, asked  *)
(* once for an input drawn at the start.                                   *)
(***************************************************************************)
FeeAmounts == {0, 1, 399, 400, 40000, 1000000}
FeePolicies ==
  {[baseFeeBps |-> b, maxFeeBps |-> m, minFeeUsdCents |-> u] :
     b \in {0, DEFAULT_FEE_BPS, 600}, m \in {0, DEFAULT_FEE_BPS, MAXIMUM_FEE_BPS},
     u \in {0, MINIMUM_FEE_USD_CENTS, 100}}
FeeDecimals == {0, 2, TOKEN_DECIMALS}
FeePrices ==
  {NullPrice, Price(0, 0), Price(1, 0), Price(2, 0), Price(4, 0), Price(3, -1),
   Price(-1, 0), Price(1, -23)}

FeeInputs ==
  {[amount |-> a, feeSettings |-> f, tokenDecimals |-> d, price |-> p] :
     a \in FeeAmounts, f \in FeePolicies, d \in FeeDecimals, p \in FeePrices}

EstimateFee ==
  /\ feeOut = NoFeeOutput
  /\ feeOut' = [svc |-> "express",
                result |-> calculateFee(feeIn.amount, feeIn.feeSettings,
                                        feeIn.tokenDecimals, feeIn.price)]
  /\ UNCHANGED <<relayVars, auxVars, feeIn, svcVars>>

NestEstimateFee ==
  /\ feeOut = NoFeeOutput
  /\ feeOut' = [svc |-> "nest",
                result |-> NestCalculateFee(feeIn.amount, feeIn.feeSettings,
                                            feeIn.tokenDecimals)]
  /\ UNCHANGED <<relayVars, auxVars, feeIn, svcVars>>

InitFee ==
  /\ RelayInit([RIDs -> {Absent}])
  /\ feeIn \in FeeInputs
  /\ feeOut = NoFeeOutput
  /\ ServicesIdle
NextFee == EstimateFee \/ NestEstimateFee
SpecFee == InitFee /\ [][NextFee]_vars

\* one request through any of the five relay paths
Init ==
  /\ RelayInit({R \in [RIDs -> PathScenarios \cup {Absent}] :
                   R[1] # Absent /\ R[2] = Absent})
  /\ NoFeeAsked
  /\ ServicesIdle
Next == ExpressNext \/ NestNext \/ EnvNext
Spec == Init /\ [][Next]_vars

(***************************************************************************)
(* The price and gas services on their own: callers overlap freely while   *)
(* the clock advances.                                                     *)
(***************************************************************************)
InitServices ==
  /\ RelayInit([RIDs -> {Absent}])
  /\ NoFeeAsked
  /\ ServicesIdle

\* the Nest relayer serving two requests of one sender at once: the same
\* transfer twice, or the same transfer on two chains
NestTransferOn(api, chainId) ==
  [NestRequest(api, 0, 3, "alice", 5 * TransferAmount, TRUE) EXCEPT
     !.chainId = chainId,
     !.signature = NestSigned("alice", chainId, Alice, Bob, "USDC", TransferAmount,
                              NestCalculateFee(TransferAmount, DefaultFeeSettings,
                                               TOKEN_DECIMALS).fee,
                              0, 3)]

NestPairs ==
  {R \in [RIDs -> {NestTransferOn(api, c) : api \in NestApis, c \in {BASE, ARBITRUM}}] :
     /\ R[1].chainId = BASE
     /\ R[2].api = "nestStandard"}

InitNest ==
  /\ RelayInit(NestPairs)
  /\ NoFeeAsked
  /\ ServicesIdle
NextNest == NestNext \/ EnvNext
SpecNest == InitNest /\ [][NextNest]_vars

InitBatch ==
  /\ RelayInit([RIDs -> {Absent}])
  /\ NoFeeAsked
  /\ clock = 0 /\ PriceIdle /\ GasIdle
  /\ batchIn \in BatchInputs
  /\ batchRun = NoBatchRun
  /\ LookupIdle /\ NonceIdle /\ SafetyIdle
NextBatch == RelayBatchStart \/ RelayBatchSendResolved \/ NestBatchCall
SpecBatch == InitBatch /\ [][NextBatch]_vars

InitLookup ==
  /\ RelayInit([RIDs -> {Absent}])
  /\ NoFeeAsked
  /\ clock = 0 /\ PriceIdle /\ GasIdle /\ BatchIdle /\ NonceIdle /\ SafetyIdle
  /\ chains = CHAIN_CONFIGS
  /\ lookupIn \in LookupInputs
  /\ lookupOut = NoLookupResult
NextLookup == GetChainConfig \/ GetTokenConfig
SpecLookup == InitLookup /\ [][NextLookup]_vars

\* the nonce routes serving two callers while transfers land on chain
InitNonce ==
  /\ RelayInit([RIDs -> {Absent}])
  /\ NoFeeAsked
  /\ clock = 0 /\ PriceIdle /\ GasIdle /\ BatchIdle /\ LookupIdle /\ SafetyIdle
  /\ nonceCall \in [NonceCallers -> NonceInputs]
NextNonce ==
  \/ \E c \in NonceCallers : GetUserNonceStart(c)
  \/ \E c \in NonceCallers : GetUserNonceResolved(c)
  \/ \E c \in InitializedChains, w \in Senders : ExternalTransfer(c, w)
SpecNonce == InitNonce /\ [][NextNonce]_vars

\* two callers of the SafetyMonitor, each checking and recording one transfer
InitSafety ==
  /\ RelayInit([RIDs -> {Absent}])
  /\ NoFeeAsked
  /\ clock = 0 /\ PriceIdle /\ GasIdle /\ BatchIdle /\ LookupIdle /\ NonceIdle
  /\ \E v \in StoredDailyVolumes : dailyVolumes = [ch \in SafetyChains |-> v]
  /\ userVolumes = NoUserVolumes
  /\ safetyCall \in [SafetyCallers -> SafetyInputs]
NextSafety ==
  \/ \E c \in SafetyCallers : CheckTransactionLimitsStart(c)
  \/ \E c \in SafetyCallers : CheckDailyVolumeResolved(c)
  \/ \E c \in SafetyCallers : CheckUserVolumeResolved(c)
  \/ \E c \in SafetyCallers : RecordDailyVolume(c)
  \/ \E c \in SafetyCallers : RecordCachedVolumeResolved(c)
  \/ \E c \in SafetyCallers : RecordSetExResolved(c)
SpecSafety == InitSafety /\ [][NextSafety]_vars

NextPrice ==
  \/ \E c \in PriceCallers : GetPriceStart(c)
  \/ \E c \in PriceCallers : GetPriceFetchResolved(c)
  \/ ClockTick
SpecPrice == InitServices /\ [][NextPrice]_vars

NextGas ==
  \/ \E c \in GasCallers : GetGasPriceStart(c)
  \/ \E c \in GasCallers : GetGasPriceFeeDataResolved(c)
  \/ \E c \in GasCallers : EstimateTransferGasStart(c)
  \/ \E c \in GasCallers : GetGasEstimateResolved(c)
  \/ \E c \in GasCallers : GasServiceEstimateGasStart(c)
  \/ \E c \in GasCallers : GasServiceEstimateGasResolved(c)
  \/ \E c \in GasCallers : GasServiceGetGasPricesStart(c)
  \/ \E c \in GasCallers : GasServiceGetGasPricesResolved(c)
  \/ ClockTick
SpecGas == InitServices /\ [][NextGas]_vars

(***************************************************************************)
(* Properties of the Express relayer under concurrent requests             *)
(* (SpecExpress).                                                          *)
(***************************************************************************)
ExpressTasks == {r \in RIDs : reqs[r].api = "express"}
HasSent(r) == sent[r] # <<>>
Started(r) == pc[r] # "new"

\* C1: two concurrent Express calls that carry the same (chainId,
\* fromAddress, transactionNonce) never both send the on-chain transaction.
C1_NeverBothSend ==
  \A r1, r2 \in ExpressTasks :
    (r1 # r2 /\ txKey(reqs[r1]) = txKey(reqs[r2])) => ~(HasSent(r1) /\ HasSent(r2))

\* C2: an Express call sends only if the nonce read by checkReplayProtection
\* succeeded and equals the request's transactionNonce; once the read failed
\* or returned a greater or smaller value the call is rejected and has sent
\* nothing.
C2_SendOnlyOnExactNonce ==
  \A r \in ExpressTasks :
    /\ HasSent(r) => prep[r].nonce = reqs[r].nonce
    /\ (prep[r] # NoPrep /\ prep[r].nonce # reqs[r].nonce) =>
         /\ pc[r] = "rejected"
         /\ ~HasSent(r)
         /\ resp[r] = Failure("Transaction already processed or invalid nonce")

\* one call has sent after an exact match while the other was rejected on a
\* nonce that differs from the one read
C2_Witness ==
  \E r1, r2 \in ExpressTasks :
    /\ HasSent(r1) /\ prep[r1].nonce = reqs[r1].nonce
    /\ pc[r2] = "rejected" /\ prep[r2].nonce >= 0
    /\ prep[r2].nonce # reqs[r2].nonce

\* C4: an Express request that arrives with expirationDeadline <= now has no
\* network call made for it.
C4_ExpiredRejectedBeforeNetwork ==
  \A r \in ExpressTasks :
    (Started(r) /\ reqs[r].deadline <= startedAt[r]) =>
      \A i \in 1..Len(log[r]) : ~IsRpc(log[r][i])

\* C7: the controller invokes relayPermitTransfer exactly when the request
\* carries a permit and relayStandardTransfer otherwise, one of them per
\* request, and every contract call of the request goes to the entry point
\* of that one method.
C7_OnePathByPermit ==
  \A r \in ExpressTasks :
    Started(r) =>
      /\ Len(log[r]) >= 1
      /\ log[r][1] = (IF reqs[r].permit THEN "relayPermitTransfer"
                      ELSE "relayStandardTransfer")
      /\ \A i \in 2..Len(log[r]) :
           log[r][i] \notin {"relayPermitTransfer", "relayStandardTransfer"}
      /\ Len(sent[r]) <= 1
      /\ \A i \in 1..Len(sent[r]) :
           sent[r][i].entry = (IF reqs[r].permit
                               THEN "processPermitBasedGaslessTransfer"
                               ELSE "processStandardGaslessTransfer")

\* a request with a permit and one without have both been sent
C7_Witness ==
  \E r1, r2 \in ExpressTasks :
    /\ reqs[r1].permit /\ HasSent(r1)
    /\ ~reqs[r2].permit /\ HasSent(r2)

(***************************************************************************)
(* Properties of every relay path, one request at a time (Spec).           *)
(***************************************************************************)
RelayTasks == {r \in RIDs : reqs[r].api # "none"}

\* C3: on every relay path, whenever the on-chain transaction is sent, the
\* request's deadline is strictly greater than the clock at that moment.
C3_DeadlineFutureAtSend ==
  \A r \in RelayTasks :
    \A i \in 1..Len(sent[r]) : sent[r][i].deadline > sent[r][i].at

Stages == <<"VALIDATED", "SIGNATURE_OK", "NONCE_OK", "GAS_ESTIMATED", "rpc:send">>

StagesInOrder(l) ==
  /\ \A k \in 1..Len(Stages) : Has(l, Stages[k])
  /\ \A k \in 1..(Len(Stages) - 1) : IndexOf(l, Stages[k]) < IndexOf(l, Stages[k + 1])

\* the failures of validation, signature verification and replay check
EarlyFailures ==
  {"Invalid request parameters", "Unsupported chain", "Invalid signature",
   "Transaction already processed or invalid nonce",
   "Cannot send to same address", "Invalid amount",
   "Transaction deadline has passed", "Chain configuration not found",
   "Token not supported", "Insufficient balance", "Insufficient allowance",
   "Failed to calculate fee", "Invalid signature provided",
   "Transaction already processed",
   "Token does not support ERC2612 permit functionality"}

\* C5: on every relay path a transaction is sent only after validation,
\* signature verification, the nonce/replay check and the gas estimate of
\* that request succeeded, in this order; a request that failed validation,
\* signature verification or the replay check is rejected and has sent
\* nothing.
C5_StagesBeforeSend ==
  \A r \in RelayTasks :
    /\ HasSent(r) => StagesInOrder(log[r])
    /\ resp[r].message \in EarlyFailures => (pc[r] = "rejected" /\ ~HasSent(r))

\* a Nest request went through every stage and was confirmed
C5_Witness ==
  \E r \in RelayTasks :
    /\ reqs[r].api \in NestApis
    /\ pc[r] = "confirmed" /\ HasSent(r) /\ StagesInOrder(log[r])

\* the signature of q was made by the account of fromAddress over exactly
\* the seven transfer fields, bound to the chain and its contract
SignedByFrom(q, scheme, chainId, nonce, fee) ==
  /\ q.signature.wellFormed
  /\ q.signature.signer = q.from.who
  /\ q.signature.digest.scheme = scheme
  /\ q.signature.digest.chainId = chainId
  /\ q.signature.digest.contract = CHAIN_CONFIGS[q.chainId].gaslessContract
  /\ q.signature.digest.data =
       [from |-> q.from.who, to |-> q.to.who, token |-> q.token,
        amount |-> q.amount, relayerFee |-> fee, nonce |-> nonce,
        deadline |-> q.deadline]

\* C6: a transaction is sent only if the signature was made by fromAddress
\* (compared without regard to letter case) over exactly (from, to, token,
\* amount, relayerFee, nonce, deadline) bound to the chain's contract; an
\* Express request with any other signature, in particular one whose to,
\* amount or nonce was changed after signing, is rejected and never sent.
C6_SendOnlyIfSignedByFrom ==
  \A r \in RelayTasks :
    LET q == reqs[r] IN
    IF q.api = "express"
    THEN /\ HasSent(r) => SignedByFrom(q, "typed", q.chainId, q.nonce, q.fee)
         /\ (Started(r) /\ HasChainConfig(q.chainId)
               /\ ~SignedByFrom(q, "typed", q.chainId, q.nonce, q.fee)) =>
              (pc[r] = "rejected" /\ ~HasSent(r))
    ELSE HasSent(r) => SignedByFrom(q, "packed", 0, prep[r].nonce, prep[r].fee)

\* a request whose fromAddress is written in lower case, signed by that
\* account, has been sent
C6_Witness ==
  \E r \in RelayTasks :
    /\ reqs[r].api = "express" /\ reqs[r].from.cs = "lower"
    /\ HasSent(r)

(***************************************************************************)
(* Properties of the fee calculation (SpecFee).                            *)
(***************************************************************************)
FeeAnswered == feeOut.svc # "none"
FloorPercentage == (feeIn.amount * feeIn.feeSettings.baseFeeBps) \div 10000
FloorMaximum == (feeIn.amount * feeIn.feeSettings.maxFeeBps) \div 10000

IsFloorOf(t, n, d) == t * d <= n /\ n < (t + 1) * d

\* t is minFeeUsd converted to token base units at the price: the floor of
\* usdCents / 100 / (mant * 10^expo) * 10^decimals
IsConvertedMinimum(t, in) ==
  LET c == in.feeSettings.minFeeUsdCents
      k == in.tokenDecimals - in.price.expo - 2
      m == Abs(in.price.mant)
      sgn == IF in.price.mant > 0 THEN 1 ELSE -1
  IN IF c = 0 THEN t = 0
     ELSE IF k >= 0 THEN IsFloorOf(t, sgn * c * Pow10(k), m)
     ELSE IsFloorOf(t, sgn * c, m * Pow10(0 - k))

\* C9: on the bounded set FeeInputs, whenever the Express calculateFee
\* succeeds it returns min(max(percentageFee, minFeeTokens), maxFeeAllowed)
\* with percentageFee = floor(amount*baseFeeBps/10000), maxFeeAllowed =
\* floor(amount*maxFeeBps/10000) and minFeeTokens the minimum USD fee
\* converted at the price (0 when no price is available).
C9_FeeIsClampedMaximum ==
  (feeOut.svc = "express" /\ feeOut.result.success) =>
    /\ feeOut.result.percentageFee = FloorPercentage
    /\ IF feeIn.price.avail /\ feeIn.price.mant # 0
       THEN IsConvertedMinimum(feeOut.result.minFeeTokens, feeIn)
       ELSE feeOut.result.minFeeTokens = 0
    /\ feeOut.result.fee =
         Min(Max(FloorPercentage, feeOut.result.minFeeTokens), FloorMaximum)

\* the converted minimum exceeded both the percentage fee and the cap, and
\* the cap was returned
C9_Witness ==
  /\ feeOut.svc = "express" /\ feeOut.result.success
  /\ feeIn.price.avail
  /\ feeOut.result.minFeeTokens > FloorMaximum
  /\ FloorMaximum > FloorPercentage
  /\ feeOut.result.fee = FloorMaximum

\* the example: 1,000,000 base units, 6 decimals, baseFeeBps 25,
\* minFeeUsd 0.10, price 1.00, MAXIMUM_FEE_BPS 500
ExampleFeeInput ==
  [amount |-> 1000000, feeSettings |-> DefaultFeeSettings,
   tokenDecimals |-> TOKEN_DECIMALS, price |-> Price(1, 0)]

\* C10 as stated: on the example calculateFee computes percentageFee 2500
\* and minFeeTokens 100000 and returns relayerFee 100000.
C10_ExampleFee ==
  (FeeAnswered /\ feeIn = ExampleFeeInput) =>
    /\ feeOut.result.percentageFee = 2500
    /\ feeOut.result.minFeeTokens = 100000
    /\ feeOut.result.fee = 100000

\* C10 amended: on the example calculateFee computes percentageFee 2500 and
\* minFeeTokens 100000 and returns the cap, relayerFee 50000.
C10_ExampleFeeAmended ==
  (FeeAnswered /\ feeIn = ExampleFeeInput) =>
    /\ feeOut.result.success
    /\ feeOut.result.percentageFee = 2500
    /\ feeOut.result.minFeeTokens = 100000
    /\ feeOut.result.fee = 50000

\* the Express calculateFee has answered the example
C10_Witness == feeOut.svc = "express" /\ feeIn = ExampleFeeInput

\* C11: when getPrice yields no price, the Express calculateFee answers
\* success = true with fee = min(percentageFee, maxFeeAllowed): the minimum
\* fee is skipped.
C11_NoPriceMeansPercentageFee ==
  (feeOut.svc = "express" /\ ~feeIn.price.avail) =>
    /\ feeOut.result.success
    /\ feeOut.result.minFeeTokens = 0
    /\ feeOut.result.fee = Min(FloorPercentage, FloorMaximum)

\* without a price and with a minimum fee configured, the percentage fee,
\* below the cap, was charged
C11_Witness ==
  /\ feeOut.svc = "express" /\ ~feeIn.price.avail
  /\ feeIn.feeSettings.minFeeUsdCents > 0
  /\ 0 < FloorPercentage /\ FloorPercentage < FloorMaximum
  /\ feeOut.result.fee = FloorPercentage

(***************************************************************************)
(* The fee carried by a relayed transfer (Spec).                           *)
(***************************************************************************)
\* C12: every transaction sent by relayStandardTransfer or
\* relayPermitTransfer carries a relayerServiceFee between the percentage
\* fee and the maximum fee the calculator computes for the request's
\* amount; a request with a fee outside these bounds is never sent.
C12_SentFeeWithinBounds ==
  \A r \in RelayTasks :
    (reqs[r].api = "express" /\ HasSent(r)) =>
      /\ percentageFeeOf(reqs[r].amount, DefaultFeeSettings) <= reqs[r].fee
      /\ reqs[r].fee <= maxFeeAllowedOf(reqs[r].amount, DefaultFeeSettings)

(***************************************************************************)
(* The price cache of PythPriceService (SpecPrice).                        *)
(***************************************************************************)
PriceReturned(c) == priceCall[c].pc = "idle" /\ priceCall[c].outcome # "none"
IsPositive(price) == price.avail /\ price.mant > 0

\* C13: after getPrice has fetched and cached a price at time t, every
\* later getPrice call that starts before t + 30 s returns that same cached
\* value and issues no outbound fetch.
C13_CachedValueServedForTTL ==
  \A i \in DOMAIN cacheWrites, c \in PriceCallers :
    (/\ priceCall[c].start > cacheWrites[i].at
     /\ priceCall[c].start < cacheWrites[i].at + CACHE_DURATION_MS) =>
      /\ priceCall[c].outcome = "cached"
      /\ priceCall[c].result = cacheWrites[i].price

\* C14: overlapping getPrice calls for the same feed id are coalesced: at
\* most one outbound fetch for the feed is in flight at any time.
C14_OneFetchInFlight ==
  Cardinality({c \in PriceCallers : priceCall[c].pc = "fetching"}) <= 1

\* C15: when the outbound fetch fails and a previously fetched quote is
\* still held in the cache, even one older than 30 s, getPrice returns that
\* last good cached price.
C15_FailureServesLastGoodPrice ==
  \A c \in PriceCallers :
    (PriceReturned(c) /\ priceCall[c].outcome = "failed" /\ priceCall[c].held.has) =>
      priceCall[c].result = priceCall[c].held.price

\* C16: getPrice never caches and never returns a price <= 0; a quote that
\* is not strictly positive is rejected.
C16_OnlyPositivePrices ==
  /\ priceCache.has => IsPositive(priceCache.price)
  /\ \A c \in PriceCallers :
       (PriceReturned(c) /\ priceCall[c].result.avail) =>
         IsPositive(priceCall[c].result)

(***************************************************************************)
(* Gas limits and gas prices (SpecGas).                                    *)
(***************************************************************************)
GasReturned(c) ==
  gasCall[c].pc = "idle" /\ gasCall[c].outcome \in {"cached", "fetched", "fallback"}
\* a getGasPrice call, made directly or by estimateTransferGas, has returned
GasPriceReturned(c) ==
  GasReturned(c) /\ gasCall[c].op \in {"getGasPrice", "estimateTransferGas"}
InFeeDataOf(chain) ==
  {c \in GasCallers : /\ gasCall[c].pc = "feeData"
                      /\ gasCall[c].op \in {"getGasPrice", "estimateTransferGas"}
                      /\ gasCall[c].chain = chain}

\* C17: for every raw estimate r, estimateTransferGas and
\* GasService.estimateGas return min(ceil(r * bufferMultiplier), gasLimitCap)
\* with default multiplier 1.2, never more than the chain's gas limit cap.
C17_GasLimitBufferedAndCapped ==
  \A c \in GasCallers :
    (/\ GasReturned(c)
     /\ gasCall[c].op \in {"estimateTransferGas", "estimateGas"}
     /\ gasCall[c].raw # Unset) =>
      gasCall[c].gasLimit =
        Min(CeilTimes(gasCall[c].raw,
                      OrElse(gasCall[c].options.gasMultiplier, DEFAULT_GAS_MULTIPLIER)),
            GAS_SETTINGS[gasCall[c].chain].gasLimit)

C19_FallbackIsConfiguredDefault ==
  \A c \in GasCallers :
    (/\ GasReturned(c) /\ gasCall[c].outcome = "fallback"
     /\ gasCall[c].op \in {"getGasPrice", "getGasPrices"}) =>
      /\ gasCall[c].price = GAS_SETTINGS[gasCall[c].chain].maxFeePerGas
      /\ gasCall[c].op = "getGasPrices" =>
           gasCall[c].priority = GAS_SETTINGS[gasCall[c].chain].maxPriorityFeePerGas

\* C20: overlapping getGasPrice calls for the same chain with a missing or
\* stale cache entry keep at most one provider.getFeeData request for that
\* chain in flight.
C20_OneFeeDataInFlight ==
  \A chain \in GasChains : Cardinality(InFeeDataOf(chain)) <= 1

(***************************************************************************)
(* Permit support, reverts, confirmation and tokens on the relay paths     *)
(* (Spec).                                                                 *)
(***************************************************************************)
PermitPathTasks ==
  {r \in RelayTasks :
     /\ Len(log[r]) > 0
     /\ log[r][1] \in {"relayPermitTransfer", "nestPermit"}}

AskedBefore(l, call, stage) ==
  Has(l, call) /\ (Has(l, stage) => IndexOf(l, call) < IndexOf(l, stage))

\* C21: every permit-based path asks checkERC2612PermitSupport for the
\* token before any signature verification or submission work and rejects
\* the request when the token lacks ERC-2612 support, so no permit-based
\* transaction is sent for an unsupported token.
C21_PermitSupportCheckedFirst ==
  \A r \in PermitPathTasks :
    (Has(log[r], "SIGNATURE_OK") \/ HasSent(r)) =>
      /\ AskedBefore(log[r], "rpc:checkERC2612PermitSupport", "SIGNATURE_OK")
      /\ reqs[r].permitSupported

EstimateReverted(r) ==
  /\ reqs[r].api \in NestApis
  /\ pc[r] = "rejected"
  /\ gasRes[r].status \in RevertReasons

KnownCategory(message) == ParseErrorMessage(message) # "Transaction failed"

\* C22: when the on-chain call reverts, the ContractManagerService
\* submission methods map a revert reason of a known category to that
\* category's error and surface any unrecognized revert reason verbatim.
C22_RevertsMappedOrVerbatim ==
  \A r \in RelayTasks :
    EstimateReverted(r) =>
      resp[r].message = IF KnownCategory(gasRes[r].status)
                        THEN ParseErrorMessage(gasRes[r].status)
                        ELSE gasRes[r].status

(***************************************************************************)
(* Batch transfers (SpecBatch).                                            *)
(***************************************************************************)
BatchCalled == batchRun.pc # "new"

\* C23: the Nest batch operations always end in a not-implemented error and
\* never issue any on-chain call, in particular never a sequence of
\* individual transfer submissions.
C23_NestBatchNotImplemented ==
  (batchIn.api \in {"nestRelayer", "nestContractManager"} /\ BatchCalled) =>
    /\ batchRun.pc = "threw"
    /\ ~batchRun.resp.success
    /\ batchRun.resp.message \in
         {"Batch standard transfers not implemented yet",
          "Batch permit-based transfers not implemented yet"}
    /\ batchRun.calls = <<>>

\* a Nest batch method was called with a well-formed batch of several
\* transfers and threw
C23_Witness ==
  /\ batchIn.api = "nestRelayer" /\ BatchCalled
  /\ batchIn.requests.present /\ Length(batchIn.requests) = 2
  /\ Length(batchIn.signatures) = 2
  /\ batchRun.pc = "threw"

LengthsDiffer(in) ==
  /\ in.requests.present /\ in.signatures.present
  /\ \/ Length(in.requests) # Length(in.signatures)
     \/ in.variant = "permit" /\ in.permits.present
          /\ Length(in.requests) # Length(in.permits)

\* C24: relayBatchStandardTransfers and relayBatchPermitTransfers reject,
\* without any on-chain call, every batch with more than 10 requests and
\* every batch whose requests, signatures (and permits) arrays differ in
\* length; an accepted batch is submitted as exactly one contract call.
C24_BatchLimitsAndOneCall ==
  (batchIn.api = "express" /\ BatchCalled) =>
    /\ ((batchIn.requests.present /\ Length(batchIn.requests) > MAX_BATCH_SIZE)
          \/ LengthsDiffer(batchIn)) =>
         (batchRun.pc = "rejected" /\ ~batchRun.resp.success /\ batchRun.calls = <<>>)
    /\ batchRun.pc \in {"awaitSend", "submitted"} =>
         /\ Len(batchRun.calls) = 1
         /\ batchRun.calls[1].method = BatchMethod(batchIn.variant)
         /\ batchRun.calls[1].size = Length(batchIn.requests)
    /\ Len(batchRun.calls) <= 1
    /\ batchRun.resp.success => batchRun.pc = "submitted"

\* a permit batch of the maximum size was accepted and submitted in one call
C24_Witness ==
  /\ batchIn.api = "express" /\ batchIn.variant = "permit"
  /\ Length(batchIn.requests) = MAX_BATCH_SIZE
  /\ batchRun.pc = "submitted" /\ batchRun.resp.success
  /\ Len(batchRun.calls) = 1

(***************************************************************************)
(* Configuration lookups (SpecLookup).                                     *)
(***************************************************************************)
ChainNotUsable(chainName) ==
  chainName \notin DOMAIN CHAIN_CONFIGS \/ CHAIN_CONFIGS[chainName].gaslessContract = ""

\* C25: getChainConfig fails for a chain name that is not configured and
\* for a configured chain whose contractAddress is empty, getTokenConfig
\* fails for a symbol not listed for that chain and whenever getChainConfig
\* fails; a failing lookup returns no configuration object and no lookup
\* changes the stored configuration.
C25_LookupsFailForUnknown ==
  /\ chains = CHAIN_CONFIGS
  /\ lookupOut.done =>
       /\ ChainNotUsable(lookupIn.chainName) => lookupOut.threw
       /\ (/\ lookupIn.op = "getTokenConfig"
           /\ ~ChainNotUsable(lookupIn.chainName)
           /\ lookupIn.tokenSymbol \notin CHAIN_CONFIGS[lookupIn.chainName].tokens) =>
            lookupOut.threw
       /\ lookupOut.threw => lookupOut.kind = "none"

(***************************************************************************)
(* Nonces and duplicates in the Nest relayer.                              *)
(***************************************************************************)
NestTasks == {r \in RIDs : reqs[r].api \in NestApis}

\* C26: in the Nest paths the nonce placed in the submitted request equals
\* the contract's current nonce for (chain, fromAddress) at the moment the
\* transaction is sent, even if the on-chain nonce advances between the
\* relayer's nonce read and the send.
C26_NestNonceCurrentAtSend ==
  \A r \in NestTasks :
    \A i \in 1..Len(sent[r]) : sent[r][i].nonce = sent[r][i].onChainNonce

\* C27: in the Nest RelayerService, while a transaction for a given (chain,
\* from, nonce) has been sent and is still awaiting confirmation, a second
\* request with the same from, to, amount and nonce is rejected and not
\* sent; at most one transaction per (chain, from, nonce) is ever sent.
C27_NestOneSendPerNonce ==
  \A r1, r2 \in NestTasks :
    (/\ r1 # r2
     /\ reqs[r1].chainId = reqs[r2].chainId
     /\ reqs[r1].from = reqs[r2].from
     /\ HasSent(r1) /\ HasSent(r2)) =>
      sent[r1][1].nonce # sent[r2][1].nonce

\* C28: requests on different chains never interfere through the
\* in-process duplicate set: a transfer is rejected as 'Transaction already
\* processed' only after a transfer with the same from, to, amount and
\* nonce succeeded on the same chain.
C28_DuplicatesArePerChain ==
  \A r \in NestTasks :
    resp[r].message = "Transaction already processed" =>
      \E r2 \in NestTasks :
        /\ r2 # r
        /\ pc[r2] = "confirmed"
        /\ reqs[r2].chainId = reqs[r].chainId
        /\ nestTxKey(reqs[r2], prep[r2].nonce) = nestTxKey(reqs[r], prep[r].nonce)

(***************************************************************************)
(* What a success answer and a sent transfer stand for (Spec).             *)
(***************************************************************************)
\* C29: a relay call reports success = true only for a transaction that
\* has been confirmed on-chain; a transaction that was merely submitted,
\* or that later reverts, is never reported as a success.
C29_SuccessMeansConfirmed ==
  \A r \in RelayTasks : resp[r].success => receipt[r] = "confirmed"

TokenListed(q) ==
  HasChainConfig(q.chainId) /\ q.token \in CHAIN_CONFIGS[q.chainId].tokens

\* C30: every transfer sent on-chain is for a token that the chain registry
\* resolves for the request's chain: a request whose token is not in that
\* chain's configured token list is rejected before signature verification
\* and is never sent.
C30_SentTokenIsListed ==
  \A r \in RelayTasks :
    (Has(log[r], "SIGNATURE_OK") \/ HasSent(r)) => TokenListed(reqs[r])

(***************************************************************************)
(* The nonce reported by getUserNonce (SpecNonce).                         *)
(***************************************************************************)
\* C31: the nonce getUserNonce reports is always the value read from the
\* contract's getCurrentUserNonce for that user and chain; when the
\* on-chain read fails, getUserNonce reports a failure and returns no
\* nonce.
C31_ReportedNonceIsOnChainRead ==
  \A c \in NonceCallers :
    /\ nonceCall[c].outcome = "returned" =>
         (nonceCall[c].read # Unset /\ nonceCall[c].nonce = nonceCall[c].read)
    /\ (nonceCall[c].pc = "done" /\ nonceCall[c].read = Unset) =>
         (nonceCall[c].outcome = "threw" /\ nonceCall[c].nonce = Unset)

(***************************************************************************)
(* The gas limit of a relayed transfer (Spec).                             *)
(***************************************************************************)
\* C32: the gasLimit attached to each on-chain send, on the Express paths
\* and on the ContractManagerService paths, is the simulated raw estimate
\* with the 1.2 buffer applied, capped at the chain's gas limit cap; no
\* transaction is sent with the unbuffered estimate or above the cap.
C32_SentGasLimitBufferedAndCapped ==
  \A r \in RelayTasks :
    \A i \in 1..Len(sent[r]) :
      sent[r][i].gasLimit =
        Min(CeilTimes(sent[r][i].gasEstimate, DEFAULT_GAS_MULTIPLIER),
            GAS_SETTINGS[reqs[r].chainId].gasLimit)

(***************************************************************************)
(* One contract call per request (Spec).                                   *)
(***************************************************************************)
Ended(r) == pc[r] \in {"rejected", "submitted", "confirmed"}

\* C33: for each relay request the relayer invokes the contract's transfer
\* entry point at most once: once the handler has ended, in particular
\* after the send failed or the transaction reverted, the request is never
\* sent again.
C33_AtMostOneSendPerRequest ==
  /\ [](\A r \in RelayTasks : Len(sent[r]) <= 1)
  /\ [][\A r \in RelayTasks :
          Ended(r) => (pc'[r] = pc[r] /\ sent'[r] = sent[r])]_vars

\* a Nest transaction was sent, reverted on chain, and the request ended
\* rejected with that one send
C33_Witness ==
  \E r \in RelayTasks :
    /\ reqs[r].api \in NestApis
    /\ receipt[r] = "reverted" /\ pc[r] = "rejected"
    /\ Len(sent[r]) = 1

(***************************************************************************)
(* Balance and allowance on the Nest paths (Spec).                         *)
(***************************************************************************)
Required(q) == q.amount + NestFee(q).fee
AllowanceTasks == {r \in RelayTasks : reqs[r].api \in {"nestStandard", "nestExecute"}}
BalanceWasRead(r) == Has(log[r], "rpc:balanceOf") /\ pc[r] # "awaitBalance"
AllowanceWasRead(r) == Has(log[r], "rpc:allowance") /\ pc[r] # "awaitAllowance"

\* C34: processStandardGaslessTransfer and executeGaslessTransfer send a
\* transaction only if the sender's balance and the allowance granted to
\* the relayer contract, as read during validateTransferParams, are both
\* >= amount + fee; otherwise the request is rejected with an
\* insufficient-balance or insufficient-allowance error and nothing is
\* sent.
C34_SendOnlyWithFunds ==
  \A r \in AllowanceTasks :
    LET q == reqs[r] IN
      /\ HasSent(r) => (q.balance >= Required(q) /\ q.allowance >= Required(q))
      /\ (BalanceWasRead(r) /\ q.balance < Required(q)) =>
           /\ pc[r] = "rejected" /\ ~HasSent(r)
           /\ resp[r].message \in {"Insufficient balance", "balance read failed"}
      /\ (AllowanceWasRead(r) /\ q.allowance < Required(q)) =>
           /\ pc[r] = "rejected" /\ ~HasSent(r)
           /\ resp[r].message \in {"Insufficient allowance", "allowance read failed"}
      /\ resp[r].message = "Insufficient balance" => q.balance < Required(q)
      /\ resp[r].message = "Insufficient allowance" => q.allowance < Required(q)

\* a transfer whose balance and allowance are exactly amount + fee was sent
C34_Witness ==
  \E r \in AllowanceTasks :
    /\ reqs[r].balance = Required(reqs[r])
    /\ reqs[r].allowance = Required(reqs[r])
    /\ HasSent(r)

(***************************************************************************)
(* When a request is marked as processed (Spec).                           *)
(***************************************************************************)
SendSucceeded(r) == Has(log[r], "SUBMITTED")

\* C35: a key is added to processedTransactions only after the on-chain
\* send for that request succeeded; a request that fails at validation,
\* signature verification, replay check, deadline check, gas estimation or
\* send leaves processedTransactions unchanged.
C35_MarkedOnlyAfterSend ==
  /\ [](/\ \A key \in processedTransactions :
             \E r \in RelayTasks :
               reqs[r].api = "express" /\ txKey(reqs[r]) = key /\ SendSucceeded(r)
        /\ \A key \in nestProcessed :
             \E r \in RelayTasks :
               /\ reqs[r].api \in NestApis /\ nestTxKey(reqs[r], prep[r].nonce) = key
               /\ SendSucceeded(r))
  /\ [][\A r \in RelayTasks :
          (pc[r] # "rejected" /\ pc'[r] = "rejected") =>
             UNCHANGED <<processedTransactions, nestProcessed>>]_vars

\* an Express request was submitted and its key is in the set
C35_Witness ==
  \E r \in RelayTasks :
    /\ reqs[r].api = "express" /\ pc[r] = "submitted"
    /\ txKey(reqs[r]) \in processedTransactions

(***************************************************************************)
(* The duplicate set after a reverted transaction (SpecExpress).           *)
(***************************************************************************)
\* the transaction of r1 was sent before r arrived, had expired by then
\* and has reverted; the on-chain nonce of the sender is still the one r
\* carries, and r is unexpired
RevertedBefore(r1, r) ==
  /\ r1 # r
  /\ txKey(reqs[r1]) = txKey(reqs[r])
  /\ HasSent(r1) /\ sent[r1][1].at < startedAt[r]
  /\ reqs[r1].deadline <= startedAt[r]
  /\ receipt[r1] = "reverted"
  /\ reqs[r].chainId \in InitializedChains
  /\ chainNonce[reqs[r].chainId][reqs[r].from.who] = reqs[r].nonce
  /\ reqs[r].deadline > now

\* C36: after a transaction sent by relayStandardTransfer or
\* relayPermitTransfer for (chainId, from, nonce N) reverted or was dropped,
\* with the on-chain nonce of from still N, a new correctly signed intent
\* of the same user carrying nonce N is not turned away by the in-process
\* duplicate set: its replay check goes on to the on-chain nonce read.
C36_RevertedNonceCanBeReused ==
  [][\A r \in ExpressTasks :
       (pc[r] = "sigChecked" /\ (\E r1 \in ExpressTasks : RevertedBefore(r1, r))) =>
          pc'[r] # "rejected"]_vars

(***************************************************************************)
(* Permit transfers of a sender without allowance (Spec).                  *)
(***************************************************************************)
\* a permit transfer signed by its sender, for a token with ERC-2612
\* support, with sufficient balance, a future deadline and no allowance
PermitWithoutAllowance(r) ==
  /\ reqs[r].api = "nestPermit"
  /\ reqs[r].signature.wellFormed /\ reqs[r].signature.signer = reqs[r].from.who
  /\ reqs[r].permitSupported
  /\ reqs[r].balance >= Required(reqs[r])
  /\ reqs[r].deadline > now
  /\ reqs[r].allowance = 0

\* C37: a permit-based transfer through processPermitBasedGaslessTransfer
\* with a valid signature and permit, a token that supports ERC-2612,
\* sufficient balance and a future deadline is not turned away for the
\* sender's zero allowance to the relayer contract: the permit supplies the
\* approval, and the request goes on towards the on-chain send.
C37_PermitNeedsNoAllowance ==
  \A r \in RelayTasks :
    PermitWithoutAllowance(r) =>
      ~(pc[r] = "rejected" /\ resp[r].message = "Insufficient allowance")

(***************************************************************************)
(* Order of the gas price cache writes (SpecGas).                          *)
(***************************************************************************)
\* C38: for each chain the timestamp stored in the gasPriceCache entry
\* never decreases, under any interleaving of concurrent getGasPrice
\* calls: a cached price is never overwritten by the result of a request
\* that started earlier than the request whose result is cached.
C38_CacheTimestampMonotonic ==
  [][\A chain \in GasChains :
       gasPriceCache[chain].has =>
         gasPriceCache'[chain].timestamp >= gasPriceCache[chain].timestamp]_vars

(***************************************************************************)
(* Volume limits under concurrent callers (SpecSafety).                    *)
(***************************************************************************)
NoFaults == \A c \in SafetyCallers : safetyCall[c].faults = 0
SafetySettled ==
  \A c \in SafetyCallers : safetyCall[c].pc \in {"denied", "recorded", "recordFailed"}

RECURSIVE SumUsd(_)
SumUsd(callers) ==
  IF callers = {} THEN 0
  ELSE LET c == CHOOSE x \in callers : TRUE
       IN safetyCall[c].usd + SumUsd(callers \ {c})

\* the amounts recorded for a user on a chain
RecordedFor(chain, user) ==
  SumUsd({c \in SafetyCallers : /\ safetyCall[c].pc = "recorded"
                                /\ safetyCall[c].chainId = chain
                                /\ safetyCall[c].user = user})

\* C39: under any interleaving of concurrent requests that each call
\* checkTransactionLimits and, only when it allowed the transfer,
\* recordTransaction, with every database and redis call succeeding, the
\* recorded daily volume of a chain never exceeds MAX_DAILY_VOLUME_USD, a
\* user's recorded daily volume never exceeds the 1000 USD per-user limit,
\* and no recorded amount is lost by a concurrent update.
C39_LimitsHoldUnderConcurrency ==
  NoFaults =>
    \A chain \in SafetyChains :
      /\ dailyVolumes[chain] <= MAX_DAILY_VOLUME_USD
      /\ \A user \in SafetyUsers :
           /\ userVolumes[chain][user] <= USER_DAILY_LIMIT
           /\ SafetySettled => userVolumes[chain][user] = RecordedFor(chain, user)
====
